---- MODULE Spec2Model ----
(***************************************************************************)
(* Conversation orchestration engine of ivan-digital/aquarius.             *)
(*                                                                         *)
(*   SpecFacade : one AgentFacade.invoke call (src/app/agent/facade.py),   *)
(*                its per-request language-model client, its per-request   *)
(*                tool-provider connection and the finally block that      *)
(*                releases it.                                             *)
(*   SpecGraph  : the conversation graph of build_langgraph                *)
(*                (src/app/agent/graph.py): intent_router, the intent      *)
(*                classifier Nodes.detect_intent and the capability nodes  *)
(*                (src/app/agent/nodes.py) over a State whose messages are *)
(*                merged by add_messages (src/app/agent/state.py).         *)
(***************************************************************************)
EXTENDS Integers, Sequences, FiniteSets, TLC

VARIABLES
    config,      \* what the ConfigManager holds: [github_token : BOOLEAN]
    callback,    \* the progress_callback argument of invoke: "none" | "ok" | "faulty"
    facade,      \* AgentFacade instance fields: [github_token]
    inv,         \* the call frame of one AgentFacade.invoke
    provider,    \* the MultiServerMCPClient launched by that invoke
    obs          \* history of the call: stage log, outcome of each stage, faults

VARIABLES
    gconf,       \* configManager.config: intent_to_node_mapping and fallback_node_name
    graph,       \* run state of the compiled StateGraph for one thread_id
    messages,    \* State["messages"] of the checkpoint of that thread_id
    profile,     \* State["profile"]: the attributes known of the user
    route        \* what the last intent_router call saw and returned

VARIABLES
    listing      \* one call of _get_github_tools_from_client: its client, what
                 \* the client exposes and what the call returned

VARIABLES
    calls,       \* the frames of the invoke calls in flight on one facade
    made         \* every client and provider connection those calls created

VARIABLES
    chat         \* one ChatService.process_message call: its threads, its event
                 \* loop and what it returned

VARIABLES
    legacy       \* one chatbot step of the graph of src/app/agent/agent.py

VARIABLES
    sys_stdout,  \* the process-wide sys.stdout
    execs        \* the frames of the PythonCodeExecutor.execute calls in flight

fvars == <<config, callback, facade, inv, provider, obs>>
gvars == <<gconf, graph, messages, profile, route>>
tvars == <<listing>>
cvars == <<calls, made>>
nvars == <<chat, legacy, sys_stdout, execs>>
vars == <<config, callback, facade, inv, provider, obs, gconf, graph, messages, profile, route,
          listing, calls, made, chat, legacy, sys_stdout, execs>>

(***************************************************************************)
(* Bounds of the model.                                                    *)
(***************************************************************************)
\* how many tools _get_github_tools_from_client may hand to the agent
MaxTools == 2
\* how many times the caller may cancel the task running invoke
MaxCancels == 1
\* longest transcript an agent run returns
MaxTranscript == 2
\* longest message list of the checkpoint a turn starts from
MaxCheckpoint == 2
\* most new messages one run of the react_mcp sub-agent returns
MaxAgentNew == 2
\* how many tools of its catalogue a provider may leave out
MaxDropped == 2
\* how many invoke calls run concurrently on one facade
NumCalls == 2

(***************************************************************************)
(* AgentResponse (src/app/server/models.py) and the texts invoke returns.  *)
(* A text is modelled by the literal that produces it.                     *)
(***************************************************************************)
\* "Request timed out. Please try again later or rephrase your question."
TimeoutMessage == "Request timed out. Please try again later or rephrase your question."
\* "I encountered a technical issue. ..."
TechnicalIssueMessage == "I encountered a technical issue. Please try rephrasing your question or try again later."
\* "I processed your request but couldn't generate a response."
NoResponseMessage == "I processed your request but couldn't generate a response."
\* response.content.strip() of the error-explaining model call: any model text
LlmExplanation == "<text written by the language model>"
\* the message argument of invoke
UserMessage == "<user message>"

\* the texts that contain the words "timed out" (case-insensitively)
ContainsTimedOut(m) == m = TimeoutMessage

AgentResponse(s, m, h) == [success |-> s, message |-> m, history |-> h]

NoResponse == [success |-> FALSE, message |-> "", history |-> <<>>]

(***************************************************************************)
(* The transcript an agent run returns: result["messages"].  A message has *)
(* a type attribute, a content and, for an AIMessage, its tool_calls.      *)
(***************************************************************************)
TranscriptMessage ==
    [type : {"human", "tool"}, content : {"", "text"}, tool_calls : {0}]
        \cup [type : {"ai"}, content : {"", "text"}, tool_calls : {0, 1}]

Transcripts == UNION { [1..n -> TranscriptMessage] : n \in 0..MaxTranscript }

\* the content of the last AI message, empty or not
LastAIContent_AnyContent(ms) ==
    LET ai == {i \in 1..Len(ms) : ms[i].type = "ai"}
    IN IF ai = {} THEN NoResponseMessage
       ELSE ms[CHOOSE i \in ai : \A j \in ai : j <= i].content

RECURSIVE LastAIContent(_)
\* facade.py 341-349: the content of the last message that is an AI message with
\* a non-empty content, scanning backward; the generic text when there is none
LastAIContent(ms) ==
    IF ms = <<>> THEN NoResponseMessage
    ELSE LET msg == ms[Len(ms)]
         IN IF msg.type = "ai" /\ msg.content # ""
            THEN msg.content
            ELSE LastAIContent(SubSeq(ms, 1, Len(ms) - 1))

\* facade.py 351-358: (role, content) per message, with the tool-use suffix
HistoryOf(ms) ==
    [i \in 1..Len(ms) |->
        [role |-> ms[i].type, content |-> ms[i].content,
         used |-> IF ms[i].type = "ai" THEN ms[i].tool_calls ELSE 0]]

HistoryEntry(r, c) == [role |-> r, content |-> c, used |-> 0]

\* facade.py 360-364
SuccessResponse(ms) == AgentResponse(TRUE, LastAIContent(ms), HistoryOf(ms))

\* facade.py 375-376
TimeoutResponse ==
    AgentResponse(FALSE, TimeoutMessage,
                  <<HistoryEntry("human", UserMessage),
                    HistoryEntry("assistant", TimeoutMessage)>>)

\* facade.py 273, 289, 307, 370, 383
ErrorResponse(m) ==
    AgentResponse(FALSE, m, <<HistoryEntry("human", UserMessage)>>)

\* the generic text whatever the error context says
HardcodedErrorMessage_AlwaysGeneric(ctxHasTimeout) ==
    TechnicalIssueMessage

\* facade.py 403-405 and 424-426: the hardcoded text for an error context
HardcodedErrorMessage(ctxHasTimeout) ==
    IF ctxHasTimeout THEN TimeoutMessage ELSE TechnicalIssueMessage

\* facade.py 396-426: every text _generate_error_response can return for a
\* context: the model's explanation, or the hardcoded text when the fresh
\* client cannot be created or the 10 s call fails or times out
GeneratedErrorMessages(ctxHasTimeout) ==
    {LlmExplanation, HardcodedErrorMessage(ctxHasTimeout)}

(***************************************************************************)
(* The stage log of one invoke.                                            *)
(***************************************************************************)
StageEvent(s, e) == [stage |-> s, ev |-> e]

Begin(log, s) == Append(log, StageEvent(s, "begin"))

End(log, s) == Append(log, StageEvent(s, "end"))

Whole(log, s) == End(Begin(log, s), s)

(***************************************************************************)
(* progress_callback: absent, well behaved, or one that may raise.         *)
(***************************************************************************)
CallbackResults ==
    IF callback = "faulty" THEN {"ok", "Exception", "TimeoutError"} ELSE {"ok"}

\* HandleInTry without the except asyncio.TimeoutError clause: a timeout falls
\* into the generic except Exception clause
HandleInTry_NoTimeoutClause(f, exc) ==
    { [f EXCEPT !.pc = "errgen", !.errOrigin = "main", !.errCtxTimeout = t]
        : t \in BOOLEAN }

\* facade.py 372-383: the except clauses of the main try, for an exception
\* raised inside it; str(e) may or may not hold the word "timeout"
HandleInTry(f, exc) ==
    IF exc = "TimeoutError"
    THEN { [f EXCEPT !.pc = "finally", !.ret = TimeoutResponse] }
    ELSE { [f EXCEPT !.pc = "errgen", !.errOrigin = "main", !.errCtxTimeout = t]
             : t \in BOOLEAN }

\* a fixed error context (no exception text in it) handed to _generate_error_response
ReportError(f, origin) ==
    [f EXCEPT !.pc = "errgen", !.errOrigin = origin, !.errCtxTimeout = FALSE]

\* an await on an external collaborator begins: the collaborator will answer
\* (in time or late, well or badly) or stay silent for good
Awaiting(f) == { [f EXCEPT !.silent = b] : b \in BOOLEAN }

\* facade.py 273, 289, 307, 370, 383: the caller of _generate_error_response
\* returns the text; from basic initialization invoke is left at once, from
\* the main try through its finally block
ReturnError(f, m) ==
    [f EXCEPT !.ret = ErrorResponse(m),
              !.pc = IF f.errOrigin = "basic" THEN "done" ELSE "finally",
              !.result = IF f.errOrigin = "basic" THEN "returned" ELSE @]

InitFacade ==
    /\ gconf = [mapping |-> "none", fallback |-> "clarify"]
    /\ graph = [pc |-> "idle"]
    /\ messages = <<>>
    /\ profile = {}
    /\ route = [called |-> FALSE]
    /\ listing = [pc |-> "idle"]
    /\ calls = <<>>
    /\ made = <<>>
    /\ chat = [pc |-> "idle"]
    /\ legacy = [pc |-> "idle"]
    /\ sys_stdout = "original"
    /\ execs = <<>>
    /\ config \in [github_token : BOOLEAN]
    /\ callback \in {"none", "ok", "faulty"}
    /\ facade = [github_token |-> FALSE]
    /\ inv = [pc |-> "idle", llm_client |-> FALSE, mcp_manager |-> FALSE,
              tools |-> 0, agent |-> FALSE, task |-> "none", pending |-> "none",
              ret |-> NoResponse, errOrigin |-> "none", errCtxTimeout |-> FALSE,
              result |-> "none", transcript |-> <<>>, silent |-> FALSE]
    /\ provider = [state |-> "none", launched |-> 0, aexit |-> 0]
    /\ obs = [stages |-> <<>>, llm |-> "none", mcp |-> "none", build |-> "none",
              agentRun |-> "none", errgen |-> "none", cleanup |-> "none",
              cbRaised |-> FALSE, cancels |-> 0]

\* facade.py 254-262: the first progress report is made outside every try
InvokeStart ==
    /\ inv.pc = "idle"
    /\ \E cb \in CallbackResults :
         IF cb = "ok"
         THEN /\ inv' = [inv EXCEPT !.pc = "basic_init"]
              /\ UNCHANGED obs
         ELSE /\ inv' = [inv EXCEPT !.pc = "done", !.result = "raised", !.pending = cb]
              /\ obs' = [obs EXCEPT !.cbRaised = TRUE]
    /\ UNCHANGED <<config, callback, facade, provider>>
    /\ UNCHANGED <<gvars, tvars, cvars, nvars>>

\* facade.py 264-273 with 39-47 and 196-201
BasicInit ==
    /\ inv.pc = "basic_init"
    /\ \E ok \in BOOLEAN, cb \in CallbackResults :
         IF ~ok
         THEN /\ inv' \in { [inv EXCEPT !.pc = "errgen", !.errOrigin = "basic",
                                        !.errCtxTimeout = t] : t \in BOOLEAN }
              /\ UNCHANGED <<facade, obs>>
         ELSE /\ facade' = [facade EXCEPT !.github_token =
                               IF facade.github_token THEN TRUE ELSE config.github_token]
              /\ IF cb = "ok"
                 THEN inv' = [inv EXCEPT !.pc = "create_llm"] /\ UNCHANGED obs
                 ELSE /\ inv' \in { [inv EXCEPT !.pc = "errgen", !.errOrigin = "basic",
                                                !.errCtxTimeout = t] : t \in BOOLEAN }
                      /\ obs' = [obs EXCEPT !.cbRaised = TRUE]
    /\ UNCHANGED <<config, callback, provider>>
    /\ UNCHANGED <<gvars, tvars, cvars, nvars>>

\* CreateLLMClient without the "if llm_client is None" return of facade.py 284-289
CreateLLMClient_NoNoneCheck ==
    /\ inv.pc = "create_llm"
    /\ \E cb \in CallbackResults, created \in BOOLEAN :
         IF cb # "ok"
         THEN /\ inv' \in HandleInTry(inv, cb)
              /\ obs' = [obs EXCEPT !.cbRaised = TRUE]
         ELSE /\ inv' = [inv EXCEPT !.pc = "create_mcp", !.llm_client = created]
              /\ obs' = [obs EXCEPT !.llm = IF created THEN "ok" ELSE "failed",
                                    !.stages = Whole(@, "acquire_llm")]
    /\ UNCHANGED <<config, callback, facade, provider>>
    /\ UNCHANGED <<gvars, tvars, cvars, nvars>>

\* facade.py 278-289 with 49-58
CreateLLMClient ==
    /\ inv.pc = "create_llm"
    /\ \E cb \in CallbackResults, created \in BOOLEAN :
         IF cb # "ok"
         THEN /\ inv' \in HandleInTry(inv, cb)
              /\ obs' = [obs EXCEPT !.cbRaised = TRUE]
         ELSE IF created
         THEN /\ inv' = [inv EXCEPT !.pc = "create_mcp", !.llm_client = TRUE]
              /\ obs' = [obs EXCEPT !.llm = "ok",
                                    !.stages = Whole(@, "acquire_llm")]
         ELSE /\ inv' = ReportError(inv, "main")
              /\ obs' = [obs EXCEPT !.llm = "failed",
                                    !.stages = Whole(@, "acquire_llm")]
    /\ UNCHANGED <<config, callback, facade, provider>>
    /\ UNCHANGED <<gvars, tvars, cvars, nvars>>

\* facade.py 291-294 with 59-93: without a token no client is made; with one a
\* MultiServerMCPClient is made and its __aenter__ awaited under wait_for
CreateMCPClient ==
    /\ inv.pc = "create_mcp"
    /\ \E cb \in CallbackResults :
         IF cb # "ok"
         THEN /\ inv' \in HandleInTry(inv, cb)
              /\ obs' = [obs EXCEPT !.cbRaised = TRUE]
              /\ UNCHANGED provider
         ELSE IF ~facade.github_token
         THEN /\ inv' = [inv EXCEPT !.pc = "build", !.mcp_manager = FALSE, !.tools = 0]
              /\ obs' = [obs EXCEPT !.mcp = "no_token",
                                    !.stages = Whole(@, "acquire_mcp")]
              /\ UNCHANGED provider
         ELSE /\ inv' \in Awaiting([inv EXCEPT !.pc = "mcp_entering"])
              /\ provider' = [provider EXCEPT !.state = "starting",
                                              !.launched = @ + 1]
              /\ obs' = [obs EXCEPT !.stages = Begin(@, "acquire_mcp")]
    /\ UNCHANGED <<config, callback, facade>>
    /\ UNCHANGED <<gvars, tvars, cvars, nvars>>

\* MCPInitDone where a provider that fails to start aborts the request
MCPInitDone_AbortOnFailure ==
    /\ inv.pc = "mcp_entering"
    /\ \E out \in {"ok", "timeout", "error"}, n \in 0..MaxTools :
         /\ inv.silent => out = "timeout"
         /\ IF out = "ok"
            THEN /\ inv' = [inv EXCEPT !.pc = "build", !.mcp_manager = TRUE, !.tools = n]
                 /\ provider' = [provider EXCEPT !.state = "open"]
            ELSE /\ n = 0
                 /\ inv' = ReportError([inv EXCEPT !.mcp_manager = FALSE, !.tools = 0], "main")
                 /\ provider' = [provider EXCEPT !.state = "abandoned"]
         /\ obs' = [obs EXCEPT !.mcp = out, !.stages = End(@, "acquire_mcp")]
    /\ UNCHANGED <<config, callback, facade>>
    /\ UNCHANGED <<gvars, tvars, cvars, nvars>>

\* facade.py 90-106: __aenter__ returns, times out (mcp_init) or raises; only
\* the first returns the manager to invoke
MCPInitDone ==
    /\ inv.pc = "mcp_entering"
    /\ \E out \in {"ok", "timeout", "error"}, n \in 0..MaxTools :
         /\ inv.silent => out = "timeout"
         /\ IF out = "ok"
            THEN /\ inv' = [inv EXCEPT !.pc = "build", !.mcp_manager = TRUE, !.tools = n]
                 /\ provider' = [provider EXCEPT !.state = "open"]
            ELSE /\ n = 0
                 /\ inv' = [inv EXCEPT !.pc = "build", !.mcp_manager = FALSE, !.tools = 0]
                 /\ provider' = [provider EXCEPT !.state = "abandoned"]
         /\ obs' = [obs EXCEPT !.mcp = out, !.stages = End(@, "acquire_mcp")]
    /\ UNCHANGED <<config, callback, facade>>
    /\ UNCHANGED <<gvars, tvars, cvars, nvars>>

\* facade.py 296-307 with 203-252
CreateAgent ==
    /\ inv.pc = "build"
    /\ \E cb \in CallbackResults, built \in BOOLEAN :
         IF cb # "ok"
         THEN /\ inv' \in HandleInTry(inv, cb)
              /\ obs' = [obs EXCEPT !.cbRaised = TRUE]
         ELSE IF built
         THEN /\ inv' = [inv EXCEPT !.pc = "pre_exec", !.agent = TRUE]
              /\ obs' = [obs EXCEPT !.build = "ok", !.stages = Whole(@, "build")]
         ELSE /\ inv' = ReportError(inv, "main")
              /\ obs' = [obs EXCEPT !.build = "failed", !.stages = Whole(@, "build")]
    /\ UNCHANGED <<config, callback, facade, provider>>
    /\ UNCHANGED <<gvars, tvars, cvars, nvars>>

\* facade.py 309-332: two progress reports, then agent.ainvoke under wait_for
StartAgent ==
    /\ inv.pc = "pre_exec"
    /\ \E cb1 \in CallbackResults, cb2 \in CallbackResults :
         IF cb1 # "ok" \/ cb2 # "ok"
         THEN /\ inv' \in HandleInTry(inv, IF cb1 # "ok" THEN cb1 ELSE cb2)
              /\ obs' = [obs EXCEPT !.cbRaised = TRUE]
         ELSE /\ inv' \in Awaiting([inv EXCEPT !.pc = "executing", !.task = "running"])
              /\ obs' = [obs EXCEPT !.stages = Begin(@, "execute")]
    /\ UNCHANGED <<config, callback, facade, provider>>
    /\ UNCHANGED <<gvars, tvars, cvars, nvars>>

\* AgentDone where the agent task keeps running after wait_for has timed out
AgentDone_TimeoutLeavesTaskRunning ==
    /\ inv.pc = "executing"
    /\ \E out \in {"ok", "badformat", "timeout", "timeout_raised", "error"},
          cb \in CallbackResults, ms \in Transcripts :
         /\ inv.silent => out = "timeout"
         /\ obs' = [obs EXCEPT !.agentRun = out, !.stages = End(@, "execute"),
                               !.cbRaised = @ \/ (out \in {"ok", "badformat"} /\ cb # "ok")]
         /\ CASE out = "timeout" ->
                   /\ ms = <<>>
                   /\ cb = "ok"
                   /\ inv' \in HandleInTry([inv EXCEPT !.task = "running"], "TimeoutError")
              [] out = "timeout_raised" ->
                   /\ ms = <<>>
                   /\ cb = "ok"
                   /\ inv' \in HandleInTry([inv EXCEPT !.task = "failed"], "TimeoutError")
              [] out = "error" ->
                   /\ ms = <<>>
                   /\ cb = "ok"
                   /\ inv' \in HandleInTry([inv EXCEPT !.task = "failed"], "Exception")
              [] out = "badformat" ->
                   /\ ms = <<>>
                   /\ IF cb # "ok"
                      THEN inv' \in HandleInTry([inv EXCEPT !.task = "finished"], cb)
                      ELSE inv' = ReportError([inv EXCEPT !.task = "finished"], "main")
              [] out = "ok" ->
                   IF cb # "ok"
                   THEN /\ ms = <<>>
                        /\ inv' \in HandleInTry([inv EXCEPT !.task = "finished"], cb)
                   ELSE inv' = [inv EXCEPT !.pc = "extract", !.task = "finished",
                                           !.transcript = ms]
    /\ UNCHANGED <<config, callback, facade, provider>>
    /\ UNCHANGED <<gvars, tvars, cvars, nvars>>

\* facade.py 326-335 and 365-383: the run returns a transcript, returns
\* something without a messages list, exceeds llm_request (wait_for cancels the
\* task), raises TimeoutError itself, or raises anything else
AgentDone ==
    /\ inv.pc = "executing"
    /\ \E out \in {"ok", "badformat", "timeout", "timeout_raised", "error"},
          cb \in CallbackResults, ms \in Transcripts :
         /\ inv.silent => out = "timeout"
         /\ obs' = [obs EXCEPT !.agentRun = out, !.stages = End(@, "execute"),
                               !.cbRaised = @ \/ (out \in {"ok", "badformat"} /\ cb # "ok")]
         /\ CASE out = "timeout" ->
                   /\ ms = <<>>
                   /\ cb = "ok"
                   /\ inv' \in HandleInTry([inv EXCEPT !.task = "cancelled"], "TimeoutError")
              [] out = "timeout_raised" ->
                   /\ ms = <<>>
                   /\ cb = "ok"
                   /\ inv' \in HandleInTry([inv EXCEPT !.task = "failed"], "TimeoutError")
              [] out = "error" ->
                   /\ ms = <<>>
                   /\ cb = "ok"
                   /\ inv' \in HandleInTry([inv EXCEPT !.task = "failed"], "Exception")
              [] out = "badformat" ->
                   /\ ms = <<>>
                   /\ IF cb # "ok"
                      THEN inv' \in HandleInTry([inv EXCEPT !.task = "finished"], cb)
                      ELSE inv' = ReportError([inv EXCEPT !.task = "finished"], "main")
              [] out = "ok" ->
                   IF cb # "ok"
                   THEN /\ ms = <<>>
                        /\ inv' \in HandleInTry([inv EXCEPT !.task = "finished"], cb)
                   ELSE inv' = [inv EXCEPT !.pc = "extract", !.task = "finished",
                                           !.transcript = ms]
    /\ UNCHANGED <<config, callback, facade, provider>>
    /\ UNCHANGED <<gvars, tvars, cvars, nvars>>

\* facade.py 337-364
ExtractResponse ==
    /\ inv.pc = "extract"
    /\ inv' = [inv EXCEPT !.pc = "finally", !.ret = SuccessResponse(inv.transcript)]
    /\ obs' = [obs EXCEPT !.stages = Whole(@, "extract")]
    /\ UNCHANGED <<config, callback, facade, provider>>
    /\ UNCHANGED <<gvars, tvars, cvars, nvars>>

\* facade.py 396-426, called from 270, 286, 304, 367 and 380; the caller returns
\* AgentResponse(success=False, ..., history=[('human', message)])
GenerateErrorResponse ==
    /\ inv.pc = "errgen"
    /\ \E created \in BOOLEAN :
         IF created
         THEN /\ inv' \in Awaiting([inv EXCEPT !.pc = "errgen_wait"])
              /\ UNCHANGED obs
         ELSE /\ inv' = ReturnError(inv, HardcodedErrorMessage(inv.errCtxTimeout))
              /\ obs' = [obs EXCEPT !.errgen = "no_client"]
    /\ UNCHANGED <<config, callback, facade, provider>>
    /\ UNCHANGED <<gvars, tvars, cvars, nvars>>

\* ErrorResponseDone that awaits the model without a time limit
ErrorResponseDone_Unbounded ==
    /\ inv.pc = "errgen_wait"
    /\ \E out \in {"llm", "call_failed"} :
         /\ ~inv.silent
         /\ inv' = ReturnError(inv, IF out = "llm" THEN LlmExplanation
                                    ELSE HardcodedErrorMessage(inv.errCtxTimeout))
         /\ obs' = [obs EXCEPT !.errgen = out]
    /\ UNCHANGED <<config, callback, facade, provider>>
    /\ UNCHANGED <<gvars, tvars, cvars, nvars>>

\* facade.py 414-426: the model answers within 10 s, or the call raises or
\* exceeds the 10 s; the last two end in the hardcoded text
ErrorResponseDone ==
    /\ inv.pc = "errgen_wait"
    /\ \E out \in {"llm", "call_failed", "call_timeout"} :
         /\ inv.silent => out = "call_timeout"
         /\ inv' = ReturnError(inv, IF out = "llm" THEN LlmExplanation
                                    ELSE HardcodedErrorMessage(inv.errCtxTimeout))
         /\ obs' = [obs EXCEPT !.errgen = out]
    /\ UNCHANGED <<config, callback, facade, provider>>
    /\ UNCHANGED <<gvars, tvars, cvars, nvars>>

\* facade.py 385-390: the finally block; a progress report that raises here
\* leaves the block before the cleanup call
FinallyBlock ==
    /\ inv.pc = "finally"
    /\ IF ~inv.mcp_manager
       THEN /\ inv' = [inv EXCEPT !.pc = "final_cb"]
            /\ UNCHANGED <<provider, obs>>
       ELSE \E cb \in CallbackResults :
              IF cb # "ok"
              THEN /\ inv' = [inv EXCEPT !.pc = "done", !.result = "raised", !.pending = cb]
                   /\ obs' = [obs EXCEPT !.cbRaised = TRUE]
                   /\ UNCHANGED provider
              ELSE /\ inv' \in Awaiting([inv EXCEPT !.pc = "cleaning"])
                   /\ provider' = [provider EXCEPT !.state = "closing", !.aexit = @ + 1]
                   /\ obs' = [obs EXCEPT !.stages = Begin(@, "release")]
    /\ UNCHANGED <<config, callback, facade>>
    /\ UNCHANGED <<gvars, tvars, cvars, nvars>>

\* CleanupDone that calls __aexit__ again after a cleanup timeout
CleanupDone_RetryOnTimeout ==
    /\ inv.pc = "cleaning"
    /\ \E out \in {"closed", "timeout", "error"} :
         /\ inv.silent => out = "timeout"
         /\ IF out = "timeout" /\ provider.aexit < 2
            THEN /\ provider' = [provider EXCEPT !.state = "closing", !.aexit = @ + 1]
                 /\ obs' = [obs EXCEPT !.cleanup = out,
                                       !.stages = Begin(End(@, "release"), "release")]
                 /\ inv' = inv
            ELSE /\ provider' = [provider EXCEPT !.state =
                                    CASE out = "closed" -> "closed"
                                      [] out = "timeout" -> "close_cancelled"
                                      [] out = "error" -> "close_failed"]
                 /\ obs' = [obs EXCEPT !.cleanup = out, !.stages = End(@, "release")]
                 /\ inv' = [inv EXCEPT !.pc = "final_cb"]
    /\ UNCHANGED <<config, callback, facade>>
    /\ UNCHANGED <<gvars, tvars, cvars, nvars>>

\* CleanupDone that lets a failed or overdue __aexit__ leave invoke as an
\* exception
CleanupDone_RaiseOnFailure ==
    /\ inv.pc = "cleaning"
    /\ \E out \in {"closed", "timeout", "error"} :
         /\ inv.silent => out = "timeout"
         /\ provider' = [provider EXCEPT !.state =
                            CASE out = "closed" -> "closed"
                              [] out = "timeout" -> "close_cancelled"
                              [] out = "error" -> "close_failed"]
         /\ obs' = [obs EXCEPT !.cleanup = out, !.stages = End(@, "release")]
         /\ inv' = IF out = "closed"
                   THEN [inv EXCEPT !.pc = "final_cb"]
                   ELSE [inv EXCEPT !.pc = "done", !.result = "raised",
                                    !.pending = "Exception"]
    /\ UNCHANGED <<config, callback, facade>>
    /\ UNCHANGED <<gvars, tvars, cvars, nvars>>

\* facade.py 108-130: __aexit__ returns, exceeds mcp_cleanup (the task is
\* cancelled) or raises; each is logged and none is raised
CleanupDone ==
    /\ inv.pc = "cleaning"
    /\ \E out \in {"closed", "timeout", "error"} :
         /\ inv.silent => out = "timeout"
         /\ provider' = [provider EXCEPT !.state =
                            CASE out = "closed" -> "closed"
                              [] out = "timeout" -> "close_cancelled"
                              [] out = "error" -> "close_failed"]
         /\ obs' = [obs EXCEPT !.cleanup = out, !.stages = End(@, "release")]
    /\ inv' = [inv EXCEPT !.pc = "final_cb"]
    /\ UNCHANGED <<config, callback, facade>>
    /\ UNCHANGED <<gvars, tvars, cvars, nvars>>

\* facade.py 392-394: the last progress report, then the pending return or
\* exception of the try statement takes effect
InvokeExit ==
    /\ inv.pc = "final_cb"
    /\ \E cb \in CallbackResults :
         IF cb # "ok"
         THEN /\ inv' = [inv EXCEPT !.pc = "done", !.result = "raised", !.pending = cb]
              /\ obs' = [obs EXCEPT !.cbRaised = TRUE]
         ELSE /\ inv' = [inv EXCEPT !.pc = "done",
                                    !.result = IF inv.pending = "none"
                                               THEN "returned" ELSE "raised"]
              /\ UNCHANGED obs
    /\ UNCHANGED <<config, callback, facade, provider>>
    /\ UNCHANGED <<gvars, tvars, cvars, nvars>>

\* The caller cancels the task running invoke while it waits on __aenter__,
\* on the agent, on the error-explaining call or on __aexit__: CancelledError
\* is no Exception, so only the finally block sees it.
Cancel ==
    /\ obs.cancels < MaxCancels
    /\ inv.pc \in {"mcp_entering", "executing", "errgen_wait", "cleaning"}
    /\ CASE inv.pc = "mcp_entering" ->
              /\ inv' = [inv EXCEPT !.pc = "finally", !.pending = "CancelledError"]
              /\ provider' = [provider EXCEPT !.state = "abandoned"]
              /\ obs' = [obs EXCEPT !.cancels = @ + 1, !.mcp = "cancelled",
                                    !.stages = End(@, "acquire_mcp")]
         [] inv.pc = "executing" ->
              /\ inv' = [inv EXCEPT !.pc = "finally", !.pending = "CancelledError",
                                    !.task = "cancelled"]
              /\ obs' = [obs EXCEPT !.cancels = @ + 1, !.agentRun = "cancelled",
                                    !.stages = End(@, "execute")]
              /\ UNCHANGED provider
         [] inv.pc = "errgen_wait" ->
              /\ inv' = IF inv.errOrigin = "basic"
                        THEN [inv EXCEPT !.pc = "done", !.result = "raised",
                                         !.pending = "CancelledError"]
                        ELSE [inv EXCEPT !.pc = "finally", !.pending = "CancelledError"]
              /\ obs' = [obs EXCEPT !.cancels = @ + 1]
              /\ UNCHANGED provider
         [] inv.pc = "cleaning" ->
              /\ inv' = [inv EXCEPT !.pc = "done", !.result = "raised",
                                    !.pending = "CancelledError"]
              /\ provider' = [provider EXCEPT !.state = "close_cancelled"]
              /\ obs' = [obs EXCEPT !.cancels = @ + 1, !.cleanup = "cancelled",
                                    !.stages = End(@, "release")]
    /\ UNCHANGED <<config, callback, facade>>
    /\ UNCHANGED <<gvars, tvars, cvars, nvars>>

NextFacade ==
    \/ InvokeStart
    \/ BasicInit
    \/ CreateLLMClient
    \/ CreateMCPClient
    \/ MCPInitDone
    \/ CreateAgent
    \/ StartAgent
    \/ AgentDone
    \/ ExtractResponse
    \/ GenerateErrorResponse
    \/ ErrorResponseDone
    \/ FinallyBlock
    \/ CleanupDone
    \/ InvokeExit
    \/ Cancel

(***************************************************************************)
(* The conversation graph: State, add_messages, the classifier, the        *)
(* router and the nodes.                                                   *)
(***************************************************************************)
\* graph.py 126: the fixed fallback text of react_mcp_wrapped
FallbackText == "I am not equipped to handle this task with the functions at my disposal."
\* graph.py 161: the text intent_router looks for in the last AI message
FailureMarker == "I am not equipped to handle this task"
\* nodes.py 163: the end-of-turn marker
EndMarker == "(Conversation ended.)"
\* nodes.py 144
TroubleText == "I'm having trouble understanding that. Could you try again?"
\* graph.py 119: f"Error processing request in react_mcp: {e}"
ReactErrorText == "Error processing request in react_mcp: <exception text>"
\* nodes.py 38 and 40: the two profile questions
NameQuestion == "By the way, what's your name?"
TimezoneQuestion == "Which timezone are you in, so I can give times correctly?"
BothQuestions == "By the way, what's your name? Which timezone are you in, so I can give times correctly?"

\* graph.py 161: "I am not equipped to handle this task" in last.content
ContainsFailureMarker(c) == c \in {FailureMarker, FallbackText}

\* str.strip() on the contents a message of the model can hold
Strip(c) ==
    CASE c = "   " -> ""
      [] c = " hi " -> "hi"
      [] OTHER -> c

\* a message: its id (0: none assigned yet), its class and its content
Message(i, r, c) == [id |-> i, role |-> r, content |-> c]

\* what a user can type, and what an assistant message of an earlier turn holds
UserContents == {"hi", " hi ", "   "}

AssistantContents == {"reply", FallbackText, EndMarker}

CheckpointMessages ==
    { Message(0, "human", c) : c \in UserContents \ {" hi "} }
        \cup { Message(0, "ai", c) : c \in AssistantContents }

\* the ids add_messages gave the messages of a stored checkpoint
WithIds(ms) == [i \in 1..Len(ms) |-> [ms[i] EXCEPT !.id = i]]

Checkpoints ==
    { WithIds(ms) : ms \in UNION { [1..n -> CheckpointMessages] : n \in 0..MaxCheckpoint } }

\* the input of graph.invoke: {"messages": [...]} with no message or one
Inputs ==
    {<<>>}
        \cup { <<Message(0, "human", c)>> : c \in UserContents }
        \cup { <<Message(0, "ai", c)>> : c \in {"reply", FailureMarker} }
        \cup { <<Message(0, "tool", "result")>> }

\* a reducer that appends whatever a node returns
add_messages_AppendAll(left, right) ==
    left \o [i \in 1..Len(right) |->
                IF right[i].id = 0 THEN [right[i] EXCEPT !.id = Len(left) + i]
                                   ELSE right[i]]

RECURSIVE add_messages(_, _)
\* state.py 18, the reducer of State.messages: a message whose id is already
\* in the list replaces that entry, any other is appended, with a fresh id
\* when it has none
add_messages(left, right) ==
    IF right = <<>> THEN left
    ELSE LET m == right[1]
             at == {i \in 1..Len(left) : m.id # 0 /\ left[i].id = m.id}
             merged == IF at # {}
                       THEN [left EXCEPT ![CHOOSE i \in at : TRUE] = m]
                       ELSE Append(left, IF m.id = 0
                                         THEN [m EXCEPT !.id = Len(left) + 1]
                                         ELSE m)
         IN add_messages(merged, Tail(right))

(***************************************************************************)
(* configManager.config                                                    *)
(***************************************************************************)
\* the mapping of src/tests/agent/test_graph.py 15-19
TestMapping ==
    [i \in {"greeting", "mcp_task", "time_query"} |->
        CASE i = "greeting" -> "chatbot"
          [] i = "mcp_task" -> "react_mcp"
          [] i = "time_query" -> "time"]

\* every capability node reachable through an intent
FullMapping ==
    [i \in {"greeting", "mcp_task", "profile", "clarify"} |->
        CASE i = "greeting" -> "chatbot"
          [] i = "mcp_task" -> "react_mcp"
          [] i = "profile" -> "profile_node"
          [] i = "clarify" -> "clarify"]

\* no intent_to_node_mapping in the configuration: .get(..., {})
EmptyMapping == [i \in {} |-> "chatbot"]

Configs ==
    [mapping : {TestMapping, FullMapping, EmptyMapping}, fallback : {"clarify"}]
        \cup [mapping : {TestMapping}, fallback : {"chatbot"}]

\* nodes.py 49-50: available_intents
Vocabulary(conf) == DOMAIN conf.mapping

(***************************************************************************)
(* Nodes.detect_intent                                                     *)
(***************************************************************************)
\* the intent "greeting" answered as a JSON object
JsonIntentAnswer == "{\"intent\": \"greeting\"}"

\* a text the model answers with: a core, possibly wrapped in white space
LlmText(pad, core) == [pad |-> pad, core |-> core]

\* str.strip() on such a text
StripText(t) == t.core

\* what self.model.invoke can do in detect_intent: raise, return an AIMessage
\* with a string content or with a list content, return another object with a
\* string content, or return anything else
LlmIntentResponses(conf) ==
    LET cores == Vocabulary(conf)
                   \cup {conf.fallback, "unknown_intent", JsonIntentAnswer}
    IN {[kind |-> "raise"], [kind |-> "ai_list"], [kind |-> "other"]}
         \cup { [kind |-> "ai", content |-> LlmText(p, c)] : p \in BOOLEAN, c \in cores }
         \cup { [kind |-> "obj", content |-> LlmText(FALSE, c)] : c \in cores }

\* the model was not asked
NoLlmCall == [kind |-> "not_called"]

Value(x) == [exc |-> FALSE, value |-> x]

Raised == [exc |-> TRUE, value |-> "exception"]

\* the label of the model taken as it comes
ValidateIntent_Unchecked(conf, detected) ==
    detected

\* nodes.py 96-101
ValidateIntent(conf, detected) ==
    IF detected \in Vocabulary(conf) \/ detected = conf.fallback
    THEN detected
    ELSE conf.fallback

\* nodes.py 84-101, the body of the try statement
DetectIntentBody(conf, resp) ==
    CASE resp.kind = "raise" -> Raised
      [] resp.kind = "ai" -> Value(ValidateIntent(conf, StripText(resp.content)))
      [] resp.kind = "ai_list" -> Raised
      [] resp.kind = "obj" -> Value(ValidateIntent(conf, StripText(resp.content)))
      [] OTHER -> Value(ValidateIntent(conf, conf.fallback))

\* nodes.py 47-105
detect_intent(conf, text, resp) ==
    IF Vocabulary(conf) = {}
    THEN Value(conf.fallback)
    ELSE LET body == DetectIntentBody(conf, resp)
         IN IF body.exc THEN Value(conf.fallback) ELSE body

\* whether detect_intent reaches self.model.invoke
AsksModel(conf) == Vocabulary(conf) # {}

(***************************************************************************)
(* intent_router                                                           *)
(***************************************************************************)
\* what one call of intent_router did: the node it returned, whether it
\* called nodes.detect_intent, with which text and what that returned, whether
\* detect_intent asked the model, and whether the call raised instead of
\* returning
RouteResult(target, classified, text, intent, asked, raised) ==
    [target |-> target, classified |-> classified, text |-> text,
     intent |-> intent, asked |-> asked, raised |-> raised]

\* RouteByIntent that classifies the content as typed and ignores the mapping
RouteByIntent_FallbackOnly(ms, conf, resp) ==
    LET last == ms[Len(ms)]
        got == detect_intent(conf, last.content, resp)
    IN RouteResult(conf.fallback, TRUE, last.content,
                   IF got.exc THEN "none" ELSE got.value, AsksModel(conf), got.exc)

\* graph.py 170-182: classify the stripped content and look the intent up
RouteByIntent(ms, conf, resp) ==
    LET last == ms[Len(ms)]
        got == detect_intent(conf, Strip(last.content), resp)
    IN IF got.exc
       THEN RouteResult("none", TRUE, Strip(last.content), "none",
                        AsksModel(conf), TRUE)
       ELSE RouteResult(IF got.value \in DOMAIN conf.mapping
                        THEN conf.mapping[got.value]
                        ELSE conf.fallback,
                        TRUE, Strip(last.content), got.value, AsksModel(conf),
                        FALSE)

\* intent_router without the rule of graph.py 166-168
intent_router_NoAssistantRule(ms, conf, resp) ==
    IF ms = <<>>
    THEN RouteResult("none", FALSE, "", "none", FALSE, TRUE)
    ELSE LET last == ms[Len(ms)]
         IN IF /\ Len(ms) > 1
               /\ ms[Len(ms) - 1].role = "human"
               /\ last.role = "ai"
               /\ ContainsFailureMarker(last.content)
            THEN RouteResult("end", FALSE, "", "none", FALSE, FALSE)
            ELSE RouteByIntent(ms, conf, resp)

\* graph.py 150-182; state["messages"][-1] raises IndexError on an empty list
intent_router(ms, conf, resp) ==
    IF ms = <<>>
    THEN RouteResult("none", FALSE, "", "none", FALSE, TRUE)
    ELSE LET last == ms[Len(ms)]
         IN IF /\ Len(ms) > 1
               /\ ms[Len(ms) - 1].role = "human"
               /\ last.role = "ai"
               /\ ContainsFailureMarker(last.content)
            THEN RouteResult("end", FALSE, "", "none", FALSE, FALSE)
            ELSE IF last.role = "ai"
            THEN RouteResult("end", FALSE, "", "none", FALSE, FALSE)
            ELSE RouteByIntent(ms, conf, resp)

(***************************************************************************)
(* The nodes: what each handler returns for the state it is given.         *)
(***************************************************************************)
NodeNames == {"chatbot", "profile_node", "clarify", "react_mcp", "time", "end"}

\* graph.py 204
InterruptBefore == {"clarify", "end"}

Returns(ms) == [raised |-> FALSE, messages |-> ms]

Raises == [raised |-> TRUE, messages |-> <<>>]

\* nodes.py 152-159: the model's reply, whatever it says, or its exception
chatbot_node(ms) ==
    { Returns(<<Message(0, "ai", c)>>) : c \in {"reply", FallbackText} } \cup {Raises}

\* nodes.py 35-45
profile_node(ms, prof) ==
    LET askName == "name" \notin prof
        askZone == "timezone" \notin prof
        prompt == IF askName /\ askZone THEN BothQuestions
                  ELSE IF askName THEN NameQuestion
                  ELSE IF askZone THEN TimezoneQuestion
                  ELSE ""
    IN { Returns(<<Message(0, "ai", prompt)>>) }

\* a clarify node that adds no message to the state
human_node_ReturnsNothing(ms) == { Returns(<<>>) }

\* nodes.py 107-150
human_node(ms) ==
    { Returns(<<Message(0, "ai", c)>>) : c \in {"reply", TroubleText} } \cup {Raises}

\* the new messages one run of the sub-agent adds to those it was given
AgentNewMessages ==
    { [i \in 1..n |-> IF i = n THEN Message(0, "ai", "reply")
                               ELSE Message(0, "tool", "result")]
        : n \in 1..MaxAgentNew }

\* graph.py 105-131: an error text when the sub-agent raises, the fallback
\* text when it returns no messages, else its whole result: the messages it
\* was given followed by the ones it added
react_mcp_wrapped(ms) ==
    { Returns(<<Message(0, "ai", ReactErrorText)>>),
      Returns(<<Message(0, "ai", FallbackText)>>) }
        \cup { Returns(ms \o new) : new \in AgentNewMessages }

\* nodes.py 26-33: State is a dict, so state.user_info raises AttributeError
time_node(ms) == {Raises}

\* nodes.py 161-163
end_node_fn(ms) == { Returns(<<Message(0, "ai", EndMarker)>>) }

\* graph.py 139-147
NodeOutputs(name, ms, prof) ==
    CASE name = "chatbot" -> chatbot_node(ms)
      [] name = "profile_node" -> profile_node(ms, prof)
      [] name = "clarify" -> human_node(ms)
      [] name = "react_mcp" -> react_mcp_wrapped(ms)
      [] name = "time" -> time_node(ms)
      [] name = "end" -> end_node_fn(ms)

(***************************************************************************)
(* One turn of the compiled graph on the checkpoint of one thread_id.      *)
(***************************************************************************)
\* github_server.py 42-60: _fetch enters the MultiServerMCPClient, reads its
\* tools and leaves the async with block, which closes the connection; the
\* tools are returned after that and the loop is closed
get_github_mcp_tools == [connection |-> "closed", aenter |-> 1, aexit |-> 1]

\* the sub-agent ran a tool: its result holds a new tool message
RanTool(name, out) ==
    /\ name = "react_mcp"
    /\ \E i \in 1..Len(out.messages) :
          out.messages[i].role = "tool" /\ out.messages[i].id = 0

NotRouted ==
    [called |-> FALSE, seen |-> <<>>, resp |-> NoLlmCall,
     result |-> RouteResult("none", FALSE, "", "none", FALSE, FALSE)]

InitGraph ==
    /\ config = [github_token |-> FALSE]
    /\ callback = "none"
    /\ facade = [github_token |-> FALSE]
    /\ inv = [pc |-> "idle"]
    /\ provider = [state |-> "none", launched |-> 0, aexit |-> 0]
    /\ obs = [stages |-> <<>>]
    /\ listing = [pc |-> "idle"]
    /\ calls = <<>>
    /\ made = <<>>
    /\ chat = [pc |-> "idle"]
    /\ legacy = [pc |-> "idle"]
    /\ sys_stdout = "original"
    /\ execs = <<>>
    /\ gconf \in Configs
    /\ messages \in Checkpoints
    /\ profile \in SUBSET {"name", "timezone"}
    /\ graph = [pc |-> "idle", next |-> "none", n0 |-> 0, base |-> <<>>,
                input |-> <<>>, path |-> <<>>, fresh |-> 0, calls |-> 0,
                mcp |-> get_github_mcp_tools, invoked |-> {}]
    /\ route = NotRouted

\* graph.invoke({"messages": input}, config): the input is merged into the
\* checkpoint of the thread and the run starts at the conditional entry point
Invoke ==
    /\ graph.pc = "idle"
    /\ \E input \in Inputs :
         /\ messages' = add_messages(messages, input)
         /\ graph' = [graph EXCEPT !.pc = "route", !.n0 = Len(messages),
                                   !.base = messages, !.input = input]
    /\ UNCHANGED <<gconf, profile, route>>
    /\ UNCHANGED <<fvars, tvars, cvars, nvars>>

\* graph.py 185 and 197: intent_router picks the next node; the run stops
\* before a node named in interrupt_before
Route ==
    /\ graph.pc = "route"
    /\ \E resp \in IF intent_router(messages, gconf, NoLlmCall).asked
                   THEN LlmIntentResponses(gconf)
                   ELSE {NoLlmCall} :
         /\ LET r == intent_router(messages, gconf, resp)
            IN /\ route' = [called |-> TRUE, seen |-> messages, resp |-> resp,
                            result |-> r]
               /\ graph' = [graph EXCEPT
                      !.pc = IF r.raised \/ r.target \notin NodeNames THEN "raised"
                             ELSE IF r.target \in InterruptBefore THEN "interrupted"
                             ELSE "node",
                      !.next = r.target,
                      !.calls = IF r.classified THEN @ + 1 ELSE @]
    /\ UNCHANGED <<gconf, messages, profile>>
    /\ UNCHANGED <<fvars, tvars, cvars, nvars>>

\* graph.invoke(None, config) on an interrupted run: the pending node runs
Resume ==
    /\ graph.pc = "interrupted"
    /\ graph' = [graph EXCEPT !.pc = "node"]
    /\ UNCHANGED <<gconf, messages, profile, route>>
    /\ UNCHANGED <<fvars, tvars, cvars, nvars>>

\* the node runs and its return value is merged into the state; "end" is the
\* finish point, every other node is followed by intent_router; the tools
\* react_mcp runs are those graph.py 45-94 took from get_github_mcp_tools
RunNode ==
    /\ graph.pc = "node"
    /\ \E out \in NodeOutputs(graph.next, messages, profile) :
         IF out.raised
         THEN /\ graph' = [graph EXCEPT !.pc = "raised"]
              /\ UNCHANGED messages
         ELSE /\ messages' = add_messages(messages, out.messages)
              /\ graph' = [graph EXCEPT
                     !.pc = IF graph.next = "end" THEN "done" ELSE "route",
                     !.path = Append(@, graph.next),
                     !.fresh = @ + Cardinality({i \in 1..Len(out.messages) :
                                                   out.messages[i].id = 0}),
                     !.invoked = IF RanTool(graph.next, out)
                                 THEN @ \cup {graph.mcp.connection} ELSE @]
    /\ UNCHANGED <<gconf, profile, route>>
    /\ UNCHANGED <<fvars, tvars, cvars, nvars>>

NextGraph ==
    \/ Invoke
    \/ Route
    \/ Resume
    \/ RunNode

SpecGraph ==
    /\ InitGraph
    /\ [][NextGraph]_vars

(***************************************************************************)
(* SpecFacade: one invoke call; the conversation graph is not running.     *)
(***************************************************************************)
SpecFacade ==
    /\ InitFacade
    /\ [][NextFacade]_vars

\* the event loop keeps running the coroutine of invoke and fires its timers:
\* a step of invoke that stays possible is taken; nothing obliges the caller
\* to cancel
SpecFacadeLive ==
    /\ InitFacade
    /\ [][NextFacade]_vars
    /\ WF_vars(InvokeStart \/ BasicInit \/ CreateLLMClient \/ CreateMCPClient
                 \/ MCPInitDone \/ CreateAgent \/ StartAgent \/ AgentDone
                 \/ ExtractResponse \/ GenerateErrorResponse \/ ErrorResponseDone
                 \/ FinallyBlock \/ CleanupDone \/ InvokeExit)

Done == inv.pc = "done"

Returned == Done /\ inv.result = "returned"

\* no second fault of the caller's making: no progress report raised and the
\* caller did not cancel the call
NoCallerFault == ~obs.cbRaised /\ obs.cancels = 0

StageNames == [i \in 1..Len(obs.stages) |-> obs.stages[i].stage]

Began(s) == \E i \in 1..Len(obs.stages) : obs.stages[i] = StageEvent(s, "begin")

Count(s, e) ==
    Cardinality({i \in 1..Len(obs.stages) : obs.stages[i] = StageEvent(s, e)})

(***************************************************************************)
(* Claims about AgentFacade.invoke, checked under SpecFacade.              *)
(***************************************************************************)
\* C1: once invoke has returned or was cancelled, every tool-provider
\* connection whose launch that invoke started has had __aexit__ invoked
\* exactly once.  Stated here for the invokes that the caller neither
\* cancelled nor disturbed by a raising progress report, which the claim covers.
C1_LaunchedProviderReleasedOnce ==
    (Done /\ NoCallerFault) => provider.aexit = provider.launched

\* C2: a failure in any stage of invoke, progress reporting and cleanup
\* included, ends in a returned AgentResponse with a message; no exception
\* reaches the caller (the caller's own cancellation aside).
C2_NoExceptionReachesCaller ==
    (Done /\ obs.cancels = 0) => (inv.result = "returned" /\ inv.ret.message # "")

StageRank(s) ==
    CASE s = "acquire_llm" -> 1
      [] s = "acquire_mcp" -> 2
      [] s = "build" -> 3
      [] s = "execute" -> 4
      [] s = "extract" -> 5
      [] s = "release" -> 6

\* every stage that began has ended before the next one begins, and stages
\* begin in strictly increasing order of acquire (LLM client, provider),
\* build, execute, extract, release
StagesInOrder ==
    LET log == obs.stages
    IN /\ (log # <<>> => log[1].ev = "begin")
       /\ \A i \in 1..(Len(log) - 1) :
            IF log[i].ev = "begin"
            THEN log[i + 1] = StageEvent(log[i].stage, "end")
            ELSE /\ log[i + 1].ev = "begin"
                 /\ StageRank(log[i + 1].stage) > StageRank(log[i].stage)

C4_TimeoutResponse ==
    /\ (Done /\ obs.agentRun = "timeout" /\ NoCallerFault) => Returned
    /\ (Returned /\ obs.agentRun = "timeout") =>
          /\ ~inv.ret.success
          /\ ContainsTimedOut(inv.ret.message)
          /\ inv.ret.history = <<HistoryEntry("human", UserMessage),
                                 HistoryEntry("assistant", inv.ret.message)>>

\* the agent run of an invoke holding a provider connection timed out
C4_Witness ==
    Returned /\ obs.agentRun = "timeout" /\ inv.task = "cancelled" /\ provider.aexit = 1

ProviderUnavailable == obs.mcp \in {"no_token", "timeout", "error"}

\* C5: when the provider connection cannot be established (no credential,
\* mcp_init timeout, or initialization raises) invoke does not abort: it goes
\* on to build and execute the agent with zero external tools, and returns
\* success=true whenever the agent run completes normally.
C5_ProviderFailureDegrades ==
    ProviderUnavailable =>
        /\ inv.tools = 0
        /\ ~inv.mcp_manager
        /\ (Done /\ NoCallerFault) =>
              /\ obs.build # "none"
              /\ obs.build = "ok" => obs.agentRun # "none"
        /\ (Done /\ NoCallerFault /\ obs.agentRun = "ok") =>
              (Returned /\ inv.ret.success)

\* provider initialization timed out and the request succeeded
C5_Witness ==
    Returned /\ obs.mcp = "timeout" /\ obs.agentRun = "ok" /\ inv.ret.success

\* C6: when the per-request language-model client cannot be constructed,
\* invoke returns success=false with a synthesized error message and nothing
\* else was attempted: no provider launched, no agent built, no agent run.
C6_FatalSetupAborts ==
    obs.llm = "failed" =>
        /\ provider.launched = 0
        /\ ~Began("acquire_mcp") /\ ~Began("build") /\ ~Began("execute")
        /\ ~inv.agent /\ inv.task = "none"
        /\ (Done /\ NoCallerFault) => Returned
        /\ Returned =>
              /\ ~inv.ret.success
              /\ inv.ret.message \in GeneratedErrorMessages(FALSE)
              /\ inv.ret.history = <<HistoryEntry("human", UserMessage)>>

\* an invoke whose language-model client could not be constructed has returned
C6_Witness ==
    Returned /\ obs.llm = "failed" /\ config.github_token

(***************************************************************************)
(* Claims about the conversation graph (SpecGraph).                        *)
(***************************************************************************)
\* the list intent_router was last called with ends in an assistant message
RoutedOnAssistantMessage ==
    /\ route.called
    /\ route.seen # <<>>
    /\ route.seen[Len(route.seen)].role = "ai"

\* C7: whenever intent_router is called on a state whose last message is
\* assistant-authored, whatever its content, it returns "end", does not call
\* the intent classifier, and the model is not asked.
C7_AssistantLastRoutesToEnd ==
    RoutedOnAssistantMessage =>
        /\ route.result.target = "end"
        /\ ~route.result.raised
        /\ ~route.result.classified
        /\ route.resp = NoLlmCall

\* the router saw (user message, assistant failure marker) and returned "end"
C7_Witness ==
    /\ RoutedOnAssistantMessage
    /\ Len(route.seen) > 1
    /\ route.seen[Len(route.seen) - 1].role = "human"
    /\ ContainsFailureMarker(route.seen[Len(route.seen)].content)
    /\ route.result.target = "end"
    /\ graph.pc = "interrupted"

\* C8: whatever the text and whatever the model does (any string, a
\* non-string answer, an exception), detect_intent returns a label of the
\* configured vocabulary or the configured fallback label, and does not raise.
C8_ClassifierReturnsKnownLabel ==
    (route.called /\ route.result.classified) =>
        /\ ~route.result.raised
        /\ route.result.intent \in Vocabulary(gconf) \cup {gconf.fallback}

\* the model answered with a label outside the vocabulary and the classifier
\* returned the fallback label
C8_Witness ==
    /\ route.called
    /\ route.result.classified
    /\ route.resp.kind = "ai"
    /\ route.resp.content.core = "unknown_intent"
    /\ route.result.intent = gconf.fallback
    /\ ~route.result.raised

\* graph.invoke has returned: the run was interrupted or reached the finish
TurnOver == graph.pc \in {"interrupted", "done"}

\* the turn was started with one new user message
OneUserMessage == Len(graph.input) = 1 /\ graph.input[1].role = "human"

\* the messages of the checkpoint the turn started from are still the first ones
PrefixKept ==
    /\ Len(messages) >= graph.n0
    /\ SubSeq(messages, 1, graph.n0) = graph.base

RoutedOnUserMessage ==
    /\ route.called
    /\ route.seen # <<>>
    /\ route.seen[Len(route.seen)].role = "human"

\* the content of the last message intent_router saw, as the user typed it
LastSeenContent == route.seen[Len(route.seen)].content

\* C11: when the last message is a user message, intent_router calls the
\* classifier on the trimmed content and returns the node the configured
\* mapping gives for the returned intent, or the configured fallback node when
\* the intent is not a key of the mapping.
C11_UserMessageRoutedByIntent ==
    RoutedOnUserMessage =>
        /\ route.result.classified
        /\ ~route.result.raised
        /\ route.result.text = Strip(LastSeenContent)
        /\ (route.result.intent \in DOMAIN gconf.mapping
              => route.result.target = gconf.mapping[route.result.intent])
        /\ (route.result.intent \notin DOMAIN gconf.mapping
              => route.result.target = gconf.fallback)

\* a padded user message was classified as "mcp_task" and routed to react_mcp
C11_Witness ==
    /\ RoutedOnUserMessage
    /\ LastSeenContent = " hi "
    /\ route.result.text = "hi"
    /\ route.result.intent = "mcp_task"
    /\ route.result.target = "react_mcp"
    /\ graph.pc = "node"

\* C12: called on a state with no messages, intent_router returns the default
\* entry node (general chat) and does not fail.
C12_EmptyStateRoutesToChat ==
    (route.called /\ route.seen = <<>>) =>
        /\ ~route.result.raised
        /\ route.result.target = "chatbot"

\* C13: when the last message is a user message, the classifier is called if
\* and only if the trimmed content is not empty; empty or whitespace-only
\* content goes to the default chat node without a classifier call.
C13_ClassifierOnlyForNonEmptyText ==
    RoutedOnUserMessage =>
        /\ route.result.classified <=> Strip(LastSeenContent) # ""
        /\ (Strip(LastSeenContent) = ""
              => route.result.target = "chatbot" /\ route.resp = NoLlmCall)
        /\ (Strip(LastSeenContent) # "" => graph.calls = 1)

(***************************************************************************)
(* Further claims about AgentFacade.invoke (SpecFacade, SpecFacadeLive).   *)
(***************************************************************************)
\* the positions of the assistant messages of the returned transcript
AssistantAt == {i \in 1..Len(inv.transcript) : inv.transcript[i].type = "ai"}

\* those whose content is not empty
AssistantWithTextAt == {i \in AssistantAt : inv.transcript[i].content # ""}

Last(S) == CHOOSE i \in S : \A j \in S : j <= i

\* C14 as stated: on normal completion the reply is the content of the last
\* assistant message of the transcript, the fixed generic text when the
\* transcript has none, with success=true.
C14_ReplyIsLastAssistantMessage ==
    (Returned /\ Began("extract")) =>
        /\ inv.ret.success
        /\ inv.ret.message = IF AssistantAt = {} THEN NoResponseMessage
                             ELSE inv.transcript[Last(AssistantAt)].content

\* C14 as amended: the reply is the content of the last assistant message
\* whose content is not empty, the fixed generic text when the transcript has
\* no such message, with success=true.
C14_ReplyIsLastAssistantText ==
    (Returned /\ Began("extract")) =>
        /\ inv.ret.success
        /\ inv.ret.message = IF AssistantWithTextAt = {} THEN NoResponseMessage
                             ELSE inv.transcript[Last(AssistantWithTextAt)].content

\* the transcript ends in an assistant message without content (a tool call)
\* and the reply is the text of the assistant message before it
C14_Witness ==
    /\ Returned
    /\ Len(inv.transcript) = 2
    /\ inv.transcript[1].type = "ai" /\ inv.transcript[1].content = "text"
    /\ inv.transcript[2].type = "ai" /\ inv.transcript[2].content = ""
    /\ inv.ret.message = "text"
    /\ inv.ret.success

\* the text _generate_error_response returned is the one its outcome calls for
ErrorTextMatchesOutcome ==
    /\ obs.errgen = "llm" => inv.ret.message = LlmExplanation
    /\ obs.errgen \in {"no_client", "call_failed", "call_timeout"} =>
          inv.ret.message = IF inv.errCtxTimeout THEN TimeoutMessage
                            ELSE TechnicalIssueMessage

\* C15 as stated: whenever invoke ends in an error the message comes from the
\* time-bounded model call of _generate_error_response, or, when the client
\* or the call fails or times out, from its hardcoded texts.
C15_ErrorTextAlwaysGenerated ==
    (Returned /\ ~inv.ret.success /\ NoCallerFault) =>
        /\ obs.errgen # "none"
        /\ ErrorTextMatchesOutcome

\* C15 as amended: a TimeoutError raised in the main try block is answered
\* with the hardcoded timeout response and no model call; every other error
\* goes through _generate_error_response, whose text is the model's or, when
\* the client or the 10 s call fails or times out, the hardcoded one chosen by
\* the error context; producing the text never raises.
C15_ErrorTextGeneratedUnlessTimeout ==
    /\ (Returned /\ ~inv.ret.success) =>
          IF obs.errgen = "none"
          THEN /\ inv.ret = TimeoutResponse
               /\ obs.agentRun \in {"timeout", "timeout_raised"} \/ obs.cbRaised
          ELSE ErrorTextMatchesOutcome
    /\ obs.agentRun \in {"timeout", "timeout_raised"} => obs.errgen = "none"
    /\ (Done /\ NoCallerFault /\ obs.errgen # "none") => (Returned /\ ~inv.ret.success)

\* the model call for an error whose context mentions a timeout ran out of its
\* 10 s and the hardcoded timeout text was returned
C15_Witness ==
    /\ Returned
    /\ obs.errgen = "call_timeout"
    /\ inv.errCtxTimeout
    /\ inv.ret.message = TimeoutMessage
    /\ obs.agentRun = "error"

ReleaseAfterExecute ==
    /\ Len(obs.stages) >= 3
    /\ obs.stages[Len(obs.stages)] = StageEvent("release", "end")
    /\ obs.stages[Len(obs.stages) - 1] = StageEvent("release", "begin")
    /\ obs.stages[Len(obs.stages) - 2] = StageEvent("execute", "end")

\* C17: when the agent run exceeds llm_request the agent task is cancelled,
\* not left running, and the provider connection that invoke holds is still
\* released afterwards.
C17_TimedOutAgentCancelledThenReleased ==
    obs.agentRun = "timeout" =>
        /\ inv.task = "cancelled"
        /\ (Done /\ NoCallerFault /\ inv.mcp_manager) =>
              /\ provider.aexit = 1
              /\ ReleaseAfterExecute

\* the agent run timed out, its task is cancelled and the provider was released
C17_Witness ==
    /\ Returned
    /\ obs.agentRun = "timeout"
    /\ inv.task = "cancelled"
    /\ ReleaseAfterExecute
    /\ provider.state = "closed"

priority_tools ==
    <<"search_repositories", "get_file_contents", "search_code",
      "get_commit", "list_commits",
      "list_branches", "list_tags",
      "get_issue", "list_issues", "get_pull_request", "list_pull_requests",
      "get_pull_request_diff", "get_pull_request_files",
      "get_me", "search_users">>

\* facade.py 171
additional_patterns == <<"get_pull_request_", "get_tag", "search_">>

\* facade.py 172: the limit of the second pass
SelectionLimit == 18

Range(seq) == {seq[i] : i \in 1..Len(seq)}

\* the catalogue of a provider, in the order it lists its tools: the fifteen
\* priority names, six more names that hold one of the patterns, two that
\* hold none
Catalogue ==
    <<"create_issue", "fork_repository", "get_commit", "get_file_contents",
      "get_issue", "get_me", "get_pull_request", "get_pull_request_comments",
      "get_pull_request_diff", "get_pull_request_files",
      "get_pull_request_reviews", "get_pull_request_status", "get_tag",
      "list_branches", "list_commits", "list_issues", "list_pull_requests",
      "list_tags", "search_code", "search_issues", "search_orgs",
      "search_repositories", "search_users">>

Reversed(seq) == [i \in 1..Len(seq) |-> seq[Len(seq) + 1 - i]]

\* pattern in tool_name, for the names of the catalogue
Contains(name, pattern) ==
    CASE pattern = "get_pull_request_" ->
            name \in {"get_pull_request_comments", "get_pull_request_diff",
                      "get_pull_request_files", "get_pull_request_reviews",
                      "get_pull_request_status"}
      [] pattern = "get_tag" -> name = "get_tag"
      [] pattern = "search_" ->
            name \in {"search_code", "search_issues", "search_orgs",
                      "search_repositories", "search_users"}
      [] OTHER -> FALSE

\* facade.py 179: any(pattern in tool_name for pattern in additional_patterns)
MatchesPattern(name) ==
    \E i \in 1..Len(additional_patterns) : Contains(name, additional_patterns[i])

\* facade.py 162-168: the first pass keeps every tool whose name is in
\* priority_tools, in the order of all_tools
FirstPass(all_tools) ==
    LET IsPriority(t) == t \in Range(priority_tools)
    IN SelectSeq(all_tools, IsPriority)

\* a second pass that never stops
SecondPass_NoLimit(rest, selected_tools) ==
    LET Fits(t) == t \notin Range(selected_tools) /\ MatchesPattern(t)
    IN selected_tools \o SelectSeq(rest, Fits)

RECURSIVE SecondPass(_, _)
\* facade.py 170-182: the second pass goes through all_tools again and adds
\* the tools not yet selected whose name holds a pattern, until 18 are selected
SecondPass(rest, selected_tools) ==
    IF rest = <<>> \/ Len(selected_tools) >= SelectionLimit
    THEN selected_tools
    ELSE LET tool == Head(rest)
         IN IF tool \notin Range(selected_tools) /\ MatchesPattern(tool)
            THEN SecondPass(Tail(rest), Append(selected_tools, tool))
            ELSE SecondPass(Tail(rest), selected_tools)

\* facade.py 132-194
get_github_tools_from_client(mcp_client, all_tools) ==
    IF mcp_client = "none" THEN <<>>
    ELSE IF mcp_client = "get_tools_raises" THEN <<>>
    ELSE IF all_tools = <<>> THEN <<>>
    ELSE SecondPass(all_tools, FirstPass(all_tools))

\* the lists a provider may expose: the first n tools of its catalogue, in
\* catalogue order or in the opposite order, without up to MaxDropped of them
ExposedLists ==
    LET orders == {Catalogue, Reversed(Catalogue)}
        drops == {D \in SUBSET Range(Catalogue) : Cardinality(D) <= MaxDropped}
        Without(seq, D) == LET Kept(t) == t \notin D IN SelectSeq(seq, Kept)
    IN { Without(SubSeq(o, 1, n), D) : o \in orders, n \in 0..Len(Catalogue), D \in drops }

InitTools ==
    /\ config = [github_token |-> FALSE]
    /\ callback = "none"
    /\ facade = [github_token |-> FALSE]
    /\ inv = [pc |-> "idle"]
    /\ provider = [state |-> "none", launched |-> 0, aexit |-> 0]
    /\ obs = [stages |-> <<>>]
    /\ gconf = [mapping |-> "none", fallback |-> "clarify"]
    /\ graph = [pc |-> "idle"]
    /\ messages = <<>>
    /\ profile = {}
    /\ route = [called |-> FALSE]
    /\ calls = <<>>
    /\ made = <<>>
    /\ chat = [pc |-> "idle"]
    /\ legacy = [pc |-> "idle"]
    /\ sys_stdout = "original"
    /\ execs = <<>>
    /\ \E c \in {"none", "ok", "get_tools_raises"}, l \in ExposedLists :
         /\ c # "ok" => l = <<>>
         /\ listing = [pc |-> "called", mcp_client |-> c, all_tools |-> l,
                       selected_tools |-> <<>>]

\* the call returns
GetGithubTools ==
    /\ listing.pc = "called"
    /\ listing' = [listing EXCEPT
           !.pc = "returned",
           !.selected_tools = get_github_tools_from_client(listing.mcp_client,
                                                           listing.all_tools)]
    /\ UNCHANGED <<fvars, gvars, cvars, nvars>>

NextTools ==
    \/ GetGithubTools

SpecTools ==
    /\ InitTools
    /\ [][NextTools]_vars

\* the tools of the exposed list whose name is in the allowlist, and the
\* others whose name holds a pattern, each in the order of the list
ExposedPriority ==
    LET IsPriority(t) == \E i \in 1..Len(priority_tools) : priority_tools[i] = t
    IN SelectSeq(listing.all_tools, IsPriority)

ExposedFillIns ==
    LET IsFillIn(t) ==
          /\ \A i \in 1..Len(priority_tools) : priority_tools[i] # t
          /\ \E i \in 1..Len(additional_patterns) : Contains(t, additional_patterns[i])
    IN SelectSeq(listing.all_tools, IsFillIn)

Calls == 1..NumCalls

\* the local variables of one invoke: facade.py 276-300
NewFrame ==
    [pc |-> "idle", llm_client |-> 0, mcp_manager |-> 0, tools |-> 0,
     agent |-> [llm |-> 0, tools |-> 0]]

\* facade.py 65 and 88: a MultiServerMCPClient made by call c, launched as a
\* container named after a fresh uuid
NewProvider(c, n) ==
    [owner |-> c, container_name |-> n, state |-> "starting",
     used_by |-> {}, released_by |-> {}]

InitConcurrent ==
    /\ callback = "none"
    /\ inv = [pc |-> "idle"]
    /\ provider = [state |-> "none", launched |-> 0, aexit |-> 0]
    /\ obs = [stages |-> <<>>]
    /\ gconf = [mapping |-> "none", fallback |-> "clarify"]
    /\ graph = [pc |-> "idle"]
    /\ messages = <<>>
    /\ profile = {}
    /\ route = [called |-> FALSE]
    /\ listing = [pc |-> "idle"]
    /\ config \in [github_token : BOOLEAN]
    /\ facade = [github_token |-> FALSE]
    /\ calls = [c \in Calls |-> NewFrame]
    /\ made = [llm_clients |-> 0, providers |-> <<>>]
    /\ chat = [pc |-> "idle"]
    /\ legacy = [pc |-> "idle"]
    /\ sys_stdout = "original"
    /\ execs = <<>>

\* facade.py 264-266 with 196-201 and 39-47: under the initialization lock the
\* token is read from the configuration unless the instance has one
CallBasicInit(c) ==
    /\ calls[c].pc = "idle"
    /\ facade' = [facade EXCEPT !.github_token =
                     IF facade.github_token THEN TRUE ELSE config.github_token]
    /\ calls' = [calls EXCEPT ![c].pc = "create_llm"]
    /\ UNCHANGED <<config, callback, inv, provider, obs, made>>
    /\ UNCHANGED <<gvars, tvars, nvars>>

\* facade.py 283-289 with 49-58: a new LLMClient for this call, or none
CallCreateLLMClient(c) ==
    /\ calls[c].pc = "create_llm"
    /\ \E created \in BOOLEAN :
         IF created
         THEN /\ made' = [made EXCEPT !.llm_clients = @ + 1]
              /\ calls' = [calls EXCEPT ![c].pc = "create_mcp",
                                        ![c].llm_client = made.llm_clients + 1]
         ELSE /\ calls' = [calls EXCEPT ![c].pc = "finally"]
              /\ UNCHANGED made
    /\ UNCHANGED <<fvars, gvars, tvars, nvars>>

\* facade.py 294 with 59-95: without a token nothing is launched; with one a
\* new MultiServerMCPClient is made and its __aenter__ awaited
CallCreateMCPClient(c) ==
    /\ calls[c].pc = "create_mcp"
    /\ IF ~facade.github_token
       THEN /\ calls' = [calls EXCEPT ![c].pc = "build"]
            /\ UNCHANGED made
       ELSE /\ made' = [made EXCEPT !.providers =
                           Append(@, NewProvider(c, Len(made.providers) + 1))]
            /\ calls' = [calls EXCEPT ![c].pc = "mcp_entering"]
    /\ UNCHANGED <<fvars, gvars, tvars, nvars>>

\* the connection call c is waiting for: the last one it made
EnteringOf(c) ==
    CHOOSE p \in 1..Len(made.providers) :
        /\ made.providers[p].owner = c
        /\ \A q \in 1..Len(made.providers) : made.providers[q].owner = c => q <= p

\* facade.py 92-106: __aenter__ returns and the manager and its tools go to
\* the locals of invoke, or it times out or raises and invoke gets (None, [])
CallMCPInitDone(c) ==
    /\ calls[c].pc = "mcp_entering"
    /\ \E out \in {"ok", "timeout", "error"} :
         LET p == EnteringOf(c)
         IN IF out = "ok"
            THEN /\ made' = [made EXCEPT !.providers[p].state = "open"]
                 /\ calls' = [calls EXCEPT ![c].pc = "build",
                                           ![c].mcp_manager = p, ![c].tools = p]
            ELSE /\ made' = [made EXCEPT !.providers[p].state = "abandoned"]
                 /\ calls' = [calls EXCEPT ![c].pc = "build"]
    /\ UNCHANGED <<fvars, gvars, tvars, nvars>>

\* facade.py 300-307 with 241-252: the agent is built from the locals
\* llm_client and tools
CallCreateAgent(c) ==
    /\ calls[c].pc = "build"
    /\ \E built \in BOOLEAN :
         calls' = IF built
                  THEN [calls EXCEPT ![c].pc = "execute",
                                     ![c].agent = [llm |-> calls[c].llm_client,
                                                   tools |-> calls[c].tools]]
                  ELSE [calls EXCEPT ![c].pc = "finally"]
    /\ UNCHANGED made
    /\ UNCHANGED <<fvars, gvars, tvars, nvars>>

\* facade.py 325-332: the agent runs; it may call the tools it was built with,
\* which go to the connection they came from
CallRunAgent(c) ==
    /\ calls[c].pc = "execute"
    /\ \E uses \in BOOLEAN :
         made' = IF uses /\ calls[c].agent.tools # 0
                 THEN [made EXCEPT !.providers[calls[c].agent.tools].used_by = @ \cup {c}]
                 ELSE made
    /\ calls' = [calls EXCEPT ![c].pc = "finally"]
    /\ UNCHANGED <<fvars, gvars, tvars, nvars>>

\* a manager kept in one place for all calls: the one made last
ManagerOf_LastMade(c) ==
    IF calls[c].mcp_manager = 0 THEN 0 ELSE Len(made.providers)

\* facade.py 387 and 390: the local variable mcp_manager of this call
ManagerOf(c) ==
    calls[c].mcp_manager

\* facade.py 385-390 with 108-130: the finally block closes the manager this
\* call holds, if any
CallFinally(c) ==
    /\ calls[c].pc = "finally"
    /\ made' = IF ManagerOf(c) = 0 THEN made
               ELSE [made EXCEPT !.providers[ManagerOf(c)].released_by = @ \cup {c},
                                 !.providers[ManagerOf(c)].state = "closed"]
    /\ calls' = [calls EXCEPT ![c].pc = "done"]
    /\ UNCHANGED <<fvars, gvars, tvars, nvars>>

NextConcurrent ==
    \E c \in Calls :
        \/ CallBasicInit(c)
        \/ CallCreateLLMClient(c)
        \/ CallCreateMCPClient(c)
        \/ CallMCPInitDone(c)
        \/ CallCreateAgent(c)
        \/ CallRunAgent(c)
        \/ CallFinally(c)

SpecConcurrent ==
    /\ InitConcurrent
    /\ [][NextConcurrent]_vars

\* C20: in every interleaving each call has its own language-model client,
\* its own provider connection, launched under its own container name, and
\* its own tool list; a connection made by one call is never used or released
\* by another.
C20_CallsShareNoClient ==
    /\ \A c1, c2 \in Calls :
         c1 # c2 =>
           /\ calls[c1].llm_client # 0 => calls[c1].llm_client # calls[c2].llm_client
           /\ calls[c1].mcp_manager # 0 => calls[c1].mcp_manager # calls[c2].mcp_manager
           /\ calls[c1].tools # 0 => calls[c1].tools # calls[c2].tools
           /\ calls[c1].agent.llm # 0 => calls[c1].agent.llm # calls[c2].agent.llm
    /\ \A c \in Calls :
         /\ calls[c].mcp_manager # 0 => made.providers[calls[c].mcp_manager].owner = c
         /\ calls[c].tools # 0 => made.providers[calls[c].tools].owner = c
         /\ calls[c].agent.tools = 0 \/ calls[c].agent.tools = calls[c].tools
         /\ calls[c].agent.llm = 0 \/ calls[c].agent.llm = calls[c].llm_client
    /\ \A p \in 1..Len(made.providers) :
         /\ made.providers[p].used_by \subseteq {made.providers[p].owner}
         /\ made.providers[p].released_by \subseteq {made.providers[p].owner}
         /\ \A q \in 1..Len(made.providers) :
              made.providers[p].container_name = made.providers[q].container_name => p = q

\* two calls held a connection each at the same time; the first has used and
\* released its own while the second still runs its agent
C20_Witness ==
    /\ Len(made.providers) = 2
    /\ calls[1].pc = "done"
    /\ calls[2].pc = "execute"
    /\ calls[2].mcp_manager = 2
    /\ made.providers[1].owner = 1
    /\ made.providers[1].used_by = {1}
    /\ made.providers[1].released_by = {1}
    /\ made.providers[2].state = "open"

(***************************************************************************)
(* SpecChat: one ChatService.process_message call (src/app/server/chat.py) *)
(* around one AgentFacade.invoke.  process_message passes no progress      *)
(* callback; the only cancellation invoke sees is the one of the outer     *)
(* asyncio.wait_for, which is the action Cancel.                           *)
(***************************************************************************)
\* chat.py 141
ChatTimeoutReply == "Request timed out. Please try asking something simpler or try again later."
\* chat.py 149, 175, 177, 217, 219
ChatTroubleReply == "I had trouble processing your request. Please try again."
\* chat.py 192, 194
ChatInterruptedReply == "My response was interrupted. Please try again."

\* chat.py 142-145, 150-153, 179, 195-198: the two-entry history built in place
FallbackHistory(reply) ==
    <<HistoryEntry("user", UserMessage), HistoryEntry("assistant", reply)>>

\* chat.py 22-27: one {"role", "content"} dict per (role, content) tuple
serialize_messages_from_tuples(messages_tuples) ==
    [i \in 1..Len(messages_tuples) |->
        [role |-> messages_tuples[i].role, content |-> messages_tuples[i].content,
         used |-> messages_tuples[i].used]]

NoOutcome == [kind |-> "none"]

\* what awaiting asyncio.wait_for(invoke(...), timeout) ends with once invoke
\* is over: its AgentResponse; TimeoutError when wait_for cancelled it; else
\* the exception invoke raised
WaitForOutcome(f) ==
    IF f.result = "returned" THEN [kind |-> "response", response |-> f.ret]
    ELSE IF f.pending = "CancelledError" THEN [kind |-> "TimeoutError"]
    ELSE [kind |-> "Exception"]

\* chat.py 139-199: the reply and the history process_message returns for
\* what the invocation ended with
HandleOutcome(o) ==
    CASE o.kind = "TimeoutError" ->
            [reply |-> ChatTimeoutReply, history |-> FallbackHistory(ChatTimeoutReply)]
      [] o.kind = "Exception" ->
            [reply |-> ChatTroubleReply, history |-> FallbackHistory(ChatTroubleReply)]
      [] o.kind = "CancelledError" ->
            [reply |-> ChatInterruptedReply,
             history |-> FallbackHistory(ChatInterruptedReply)]
      [] o.kind = "response" ->
            IF o.response.success
            THEN [reply |-> o.response.message,
                  history |-> serialize_messages_from_tuples(o.response.history)]
            ELSE LET fallback_reply == IF o.response.message # ""
                                       THEN o.response.message
                                       ELSE ChatTroubleReply
                     history_tuples == IF o.response.history # <<>>
                                       THEN o.response.history
                                       ELSE FallbackHistory(fallback_reply)
                 IN [reply |-> fallback_reply,
                     history |-> serialize_messages_from_tuples(history_tuples)]

\* the branch of chat.py 94-137 that never looks for a running loop
RunsInThread_Never(running_loop) == FALSE

\* chat.py 94-97 and 124: asyncio.get_running_loop() returns in a context with
\* a running loop and raises RuntimeError in one without
RunsInThread(running_loop) == running_loop

Return(c, o) ==
    [c EXCEPT !.pc = "returned", !.outcome = o,
              !.reply = HandleOutcome(o).reply,
              !.history = HandleOutcome(o).history]

InitChat ==
    /\ gconf = [mapping |-> "none", fallback |-> "clarify"]
    /\ graph = [pc |-> "idle"]
    /\ messages = <<>>
    /\ profile = {}
    /\ route = [called |-> FALSE]
    /\ listing = [pc |-> "idle"]
    /\ calls = <<>>
    /\ made = <<>>
    /\ legacy = [pc |-> "idle"]
    /\ sys_stdout = "original"
    /\ execs = <<>>
    /\ config \in [github_token : BOOLEAN]
    /\ callback = "none"
    /\ facade = [github_token |-> FALSE]
    /\ inv = [pc |-> "not_called", llm_client |-> FALSE, mcp_manager |-> FALSE,
              tools |-> 0, agent |-> FALSE, task |-> "none", pending |-> "none",
              ret |-> NoResponse, errOrigin |-> "none", errCtxTimeout |-> FALSE,
              result |-> "none", transcript |-> <<>>, silent |-> FALSE]
    /\ provider = [state |-> "none", launched |-> 0, aexit |-> 0]
    /\ obs = [stages |-> <<>>, llm |-> "none", mcp |-> "none", build |-> "none",
              agentRun |-> "none", errgen |-> "none", cleanup |-> "none",
              cbRaised |-> FALSE, cancels |-> 0]
    /\ \E running \in BOOLEAN :
         chat = [pc |-> "called", running_loop |-> running, worker |-> "none",
                 future |-> NoOutcome, loop |-> "none",
                 ran |-> [thread |-> "none", loop |-> "none"],
                 nested |-> FALSE, fault |-> "none", timed_out |-> FALSE,
                 outcome |-> NoOutcome, reply |-> "", history |-> <<>>]

\* chat.py 49-97 and 124-126: the timeout is chosen, then the path
ProcessMessage ==
    /\ chat.pc = "called"
    /\ chat' = [chat EXCEPT !.pc = IF RunsInThread(chat.running_loop)
                                   THEN "submit" ELSE "direct"]
    /\ UNCHANGED <<fvars, gvars, tvars, cvars, legacy, sys_stdout, execs>>

\* chat.py 103-119: the executor starts the worker thread, which makes a new
\* event loop and runs wait_for(invoke) on it; a thread that cannot be started
\* is a RuntimeError, which the clause of line 124 takes for "no running loop"
SubmitWorker ==
    /\ chat.pc = "submit"
    /\ \E started \in BOOLEAN :
         IF started
         THEN /\ chat' = [chat EXCEPT !.pc = "waiting", !.worker = "running",
                                      !.loop = "open",
                                      !.ran = [thread |-> "worker", loop |-> "new"]]
              /\ inv' = [inv EXCEPT !.pc = "idle"]
         ELSE /\ chat' = [chat EXCEPT !.pc = "direct", !.fault = "no_thread"]
              /\ UNCHANGED inv
    /\ UNCHANGED <<config, callback, facade, provider, obs>>
    /\ UNCHANGED <<gvars, tvars, cvars, legacy, sys_stdout, execs>>

\* chat.py 107-115: run_until_complete returns or raises, the loop is closed
\* in the finally clause and the future of the executor is resolved
WorkerDone ==
    /\ chat.worker = "running"
    /\ inv.pc = "done"
    /\ chat' = [chat EXCEPT !.worker = "finished", !.loop = "closed",
                            !.future = WaitForOutcome(inv),
                            !.timed_out = @ \/ WaitForOutcome(inv).kind = "TimeoutError"]
    /\ UNCHANGED <<fvars, gvars, tvars, cvars, legacy, sys_stdout, execs>>

\* chat.py 120-122 and 139-181: future.result() hands over what the worker
\* ended with; leaving the with block finds the worker finished
FutureResult ==
    /\ chat.pc = "waiting"
    /\ chat.worker = "finished"
    /\ chat' = Return(chat, chat.future)
    /\ UNCHANGED <<fvars, gvars, tvars, cvars, legacy, sys_stdout, execs>>

\* chat.py 120: future.result(timeout + 5) gives up, five seconds after the
\* wait_for of the worker has cancelled invoke, while the worker is still busy
FutureTimeout ==
    /\ chat.pc = "waiting"
    /\ chat.worker = "running"
    /\ obs.cancels > 0
    /\ chat' = [chat EXCEPT !.pc = "joining", !.timed_out = TRUE]
    /\ UNCHANGED <<fvars, gvars, tvars, cvars, legacy, sys_stdout, execs>>

\* JoinWorker with an executor that is shut down without waiting
JoinWorker_NoWait ==
    /\ chat.pc = "joining"
    /\ \E same_class \in BOOLEAN :
         chat' = Return(chat, [kind |-> IF same_class THEN "TimeoutError"
                                        ELSE "Exception"])
    /\ UNCHANGED <<fvars, gvars, tvars, cvars, legacy, sys_stdout, execs>>

\* chat.py 118 and 139-154: the with block is left through
\* executor.shutdown(wait=True), which joins the worker; then the timeout of
\* future.result is handled: by the clause of line 139 where
\* concurrent.futures.TimeoutError is asyncio.TimeoutError (both the builtin,
\* from Python 3.11 on), by the clause of line 147 where it is not
JoinWorker ==
    /\ chat.pc = "joining"
    /\ chat.worker = "finished"
    /\ \E same_class \in BOOLEAN :
         chat' = Return(chat, [kind |-> IF same_class THEN "TimeoutError"
                                        ELSE "Exception"])
    /\ UNCHANGED <<fvars, gvars, tvars, cvars, legacy, sys_stdout, execs>>

\* chat.py 128-136: asyncio.run makes a new loop on the calling thread and runs
\* wait_for(invoke) on it; called where a loop is running it raises
\* RuntimeError before anything runs, which the clause of line 147 handles
RunDirect ==
    /\ chat.pc = "direct"
    /\ IF chat.running_loop
       THEN /\ chat' = [Return(chat, [kind |-> "Exception"]) EXCEPT !.nested = TRUE]
            /\ UNCHANGED inv
       ELSE /\ chat' = [chat EXCEPT !.pc = "running", !.loop = "open",
                                    !.ran = [thread |-> "caller", loop |-> "new"]]
            /\ inv' = [inv EXCEPT !.pc = "idle"]
    /\ UNCHANGED <<config, callback, facade, provider, obs>>
    /\ UNCHANGED <<gvars, tvars, cvars, legacy, sys_stdout, execs>>

\* chat.py 129-181: asyncio.run closes its loop and returns or raises
DirectDone ==
    /\ chat.pc = "running"
    /\ inv.pc = "done"
    /\ chat' = [Return(chat, WaitForOutcome(inv)) EXCEPT
                   !.loop = "closed",
                   !.timed_out = WaitForOutcome(inv).kind = "TimeoutError"]
    /\ UNCHANGED <<fvars, gvars, tvars, cvars, legacy, sys_stdout, execs>>

NextChat ==
    \/ ProcessMessage
    \/ SubmitWorker
    \/ WorkerDone
    \/ FutureResult
    \/ FutureTimeout
    \/ JoinWorker
    \/ RunDirect
    \/ DirectDone
    \/ InvokeStart
    \/ BasicInit
    \/ CreateLLMClient
    \/ CreateMCPClient
    \/ MCPInitDone
    \/ CreateAgent
    \/ StartAgent
    \/ AgentDone
    \/ ExtractResponse
    \/ GenerateErrorResponse
    \/ ErrorResponseDone
    \/ FinallyBlock
    \/ CleanupDone
    \/ InvokeExit
    \/ Cancel

\* both threads and the loop of invoke keep running: a step of the program
\* that stays possible is taken; the two timers of process_message (Cancel,
\* FutureTimeout) need not fire
SpecChat ==
    /\ InitChat
    /\ [][NextChat]_vars
    /\ WF_vars(ProcessMessage \/ SubmitWorker \/ WorkerDone \/ FutureResult
                 \/ JoinWorker \/ RunDirect \/ DirectDone
                 \/ InvokeStart \/ BasicInit \/ CreateLLMClient \/ CreateMCPClient
                 \/ MCPInitDone \/ CreateAgent \/ StartAgent \/ AgentDone
                 \/ ExtractResponse \/ GenerateErrorResponse \/ ErrorResponseDone
                 \/ FinallyBlock \/ CleanupDone \/ InvokeExit)

ChatReturned == chat.pc = "returned"

InvokeCalled == inv.pc # "not_called"

(***************************************************************************)
(* Claims about ChatService.process_message, checked under SpecChat.       *)
(***************************************************************************)
\* where invoke runs, once it runs: on a new loop, in the worker thread when
\* the caller has a running loop and on the calling thread when it has none
RunsOnItsOwnLoop ==
    InvokeCalled =>
        chat.ran = [thread |-> IF chat.running_loop THEN "worker" ELSE "caller",
                    loop |-> "new"]

\* process_message has returned: the loop it made is closed, invoke has run to
\* its end unless no worker thread could be started, and the nested-loop
\* RuntimeError of asyncio.run arose in that case only (and was handled)
ReturnedCleanly ==
    ChatReturned =>
        /\ chat.loop # "open"
        /\ chat.worker # "running"
        /\ chat.fault = "none" => (inv.pc = "done" /\ chat.loop = "closed")
        /\ chat.nested => chat.fault = "no_thread"

\* C21: with a running event loop in the calling context invoke runs in a
\* worker thread on a newly created loop, with none it runs on a fresh loop of
\* the calling thread; that loop is closed when process_message returns; the
\* call does not fail on a nested loop, and it always returns.
C21_NestedLoopRunsInWorkerThread ==
    /\ [](RunsOnItsOwnLoop /\ ReturnedCleanly)
    /\ <>ChatReturned

\* called with a running loop, the worker thread ran invoke to a successful
\* response on its own loop, which is closed again
C21_Witness ==
    /\ ChatReturned
    /\ chat.running_loop
    /\ chat.ran = [thread |-> "worker", loop |-> "new"]
    /\ chat.loop = "closed"
    /\ chat.outcome.kind = "response"
    /\ chat.outcome.response.success

\* the invocation ended in a failure: a response with success = False, a
\* timeout or another exception
FailureOutcome ==
    /\ ChatReturned
    /\ \/ chat.outcome.kind \in {"TimeoutError", "Exception", "CancelledError"}
       \/ chat.outcome.kind = "response" /\ ~chat.outcome.response.success

\* C22: for every failure outcome of the facade process_message returns a
\* reply and a history of exactly two entries, the user's message with role
\* user and one assistant entry holding the reply.
C22_FailureHistoryHasUserAndReply ==
    FailureOutcome =>
        /\ Len(chat.history) = 2
        /\ chat.history[1].role = "user"
        /\ chat.history[1].content = UserMessage
        /\ chat.history[2].role = "assistant"
        /\ chat.history[2].content = chat.reply

\* C28: when the outer timeout has expired while invoke was running, invoke
\* was cancelled, invoke is over when process_message returns, and the
\* provider connection invoke had acquired has been through its release, on
\* the direct path and on the worker-thread path.
C28_TimeoutReplyAfterRelease ==
    (ChatReturned /\ chat.timed_out) =>
        /\ obs.cancels > 0
        /\ inv.pc = "done"
        /\ inv.mcp_manager =>
              /\ provider.aexit = 1
              /\ provider.state \in {"closed", "close_cancelled", "close_failed"}
              /\ Count("release", "end") = 1

\* on the worker-thread path future.result gave up while the worker was still
\* releasing an acquired connection, and the reply came after the release
C28_Witness ==
    /\ ChatReturned
    /\ chat.timed_out
    /\ chat.running_loop
    /\ chat.future.kind = "TimeoutError"
    /\ chat.outcome.kind = "TimeoutError"
    /\ chat.reply = ChatTimeoutReply
    /\ inv.mcp_manager
    /\ obs.agentRun = "cancelled"
    /\ provider.state = "closed"

(***************************************************************************)
(* Further claims about the conversation graph, checked under SpecGraph.   *)
(***************************************************************************)
\* graph.invoke has returned on a run whose router chose the terminal node
TurnEnded == TurnOver /\ graph.next = "end"

\* C23: every completed turn ends with the terminal node appending the
\* end-of-turn marker: the last message of the persisted transcript is the
\* marker and the terminal node is the last node that ran.
C23_TurnEndsWithMarker ==
    TurnEnded =>
        /\ messages # <<>>
        /\ messages[Len(messages)].role = "ai"
        /\ messages[Len(messages)].content = EndMarker
        /\ graph.path # <<>>
        /\ graph.path[Len(graph.path)] = "end"

\* the model answered the classification prompt with the JSON object
\* {"intent": "greeting"} and "greeting" is an intent of the configuration
JsonAnswerInVocabulary ==
    /\ route.called
    /\ route.result.classified
    /\ route.result.asked
    /\ route.resp.kind \in {"ai", "obj"}
    /\ route.resp.content.core = JsonIntentAnswer
    /\ "greeting" \in Vocabulary(gconf)

\* C24: when the model answers the classification prompt with a JSON object
\* {"intent": L} and L is in the configured vocabulary, the classifier
\* returns L.
C24_JsonAnswerYieldsLabel ==
    JsonAnswerInVocabulary => route.result.intent = "greeting"

\* the one question of the first attribute missing from the profile, in the
\* order name, timezone; no question when both are there
FirstMissingQuestion(prof) ==
    IF "name" \notin prof THEN NameQuestion
    ELSE IF "timezone" \notin prof THEN TimezoneQuestion
    ELSE ""

\* C26: the profile node asks about exactly one attribute per execution, the
\* first one missing in the order name, timezone, and asks nothing when both
\* are present.
C26_ProfileAsksFirstMissingOnly ==
    graph.path = <<"profile_node">> =>
        messages[Len(messages)].content = FirstMissingQuestion(profile)

\* C27: a tool obtained from the external provider is invoked only while the
\* connection that supplied it is open.
C27_ToolsInvokedOnlyWhileOpen ==
    \A c \in graph.invoked : c = "open"

\* the turn started with a user message as the last message of the state
TurnStartsOnUser ==
    LET start == add_messages(graph.base, graph.input)
    IN /\ graph.pc # "idle"
       /\ start # <<>>
       /\ start[Len(start)].role = "human"

NonTerminalRuns ==
    Cardinality({i \in 1..Len(graph.path) : graph.path[i] # "end"})

\* C29: a turn that starts with a user message as last message runs at most
\* one non-terminal node: once a node has run the last message is an
\* assistant message, the next routing decision is "end", and the classifier
\* was called at most once.
C29_OneNonTerminalNodePerTurn ==
    TurnStartsOnUser =>
        /\ NonTerminalRuns <= 1
        /\ graph.calls <= 1
        /\ graph.path # <<>> => messages[Len(messages)].role = "ai"
        /\ (graph.path # <<>> /\ graph.pc # "route") => graph.next = "end"

\* the resumed clarify node asked its question, the router then chose "end"
\* without classifying again, and the run was resumed to its finish
C29_Witness ==
    /\ TurnStartsOnUser
    /\ graph.pc = "done"
    /\ graph.path = <<"clarify", "end">>
    /\ graph.calls = 1
    /\ route.result.target = "end"
    /\ ~route.result.classified

(***************************************************************************)
(* PythonCodeExecutor.execute (app/agent/tools/code/python.py): the module *)
(* holds one executor, and each call of executePython swaps the            *)
(* process-wide sys.stdout for a buffer of its own.  Calls made from       *)
(* different threads interleave between any two statements.                *)
(***************************************************************************)

MaxExecs == 2

ExecCalls == 1..MaxExecs

\* the code strings by what lint_code and exec do with them
Codes == {"ok", "syntax_error", "raises"}

OriginalStdout == "original"

\* python.py 40: the io.StringIO() made by call c
redirected_output(c) == "StringIO#" \o ToString(c)

\* python.py 9-23: ast.parse rejects the code or not
lint_code(code) == IF code = "syntax_error" THEN "Syntax Error" ELSE "none"

InitExecutor ==
    /\ callback = "none"
    /\ inv = [pc |-> "idle"]
    /\ provider = [state |-> "none", launched |-> 0, aexit |-> 0]
    /\ obs = [stages |-> <<>>]
    /\ gconf = [mapping |-> "none", fallback |-> "clarify"]
    /\ graph = [pc |-> "idle"]
    /\ messages = <<>>
    /\ profile = {}
    /\ route = [called |-> FALSE]
    /\ listing = [pc |-> "idle"]
    /\ config = [github_token |-> FALSE]
    /\ facade = [github_token |-> FALSE]
    /\ calls = <<>>
    /\ made = <<>>
    /\ chat = [pc |-> "idle"]
    /\ legacy = [pc |-> "idle"]
    /\ sys_stdout = OriginalStdout
    /\ execs \in [ExecCalls -> {[pc |-> "lint", code |-> k, old_stdout |-> "unset",
                                 executed |-> FALSE, output |-> "none"] : k \in Codes}]

\* python.py 35-37: a syntax error is returned before anything is swapped
Lint(c) ==
    /\ execs[c].pc = "lint"
    /\ execs' = IF lint_code(execs[c].code) # "none"
                THEN [execs EXCEPT ![c].pc = "returned",
                                   ![c].output = lint_code(execs[c].code)]
                ELSE [execs EXCEPT ![c].pc = "save"]
    /\ UNCHANGED <<fvars, gvars, tvars, cvars, chat, legacy, sys_stdout>>

\* python.py 39: old_stdout = sys.stdout
SaveStdout(c) ==
    /\ execs[c].pc = "save"
    /\ execs' = [execs EXCEPT ![c].pc = "redirect", ![c].old_stdout = sys_stdout]
    /\ UNCHANGED <<fvars, gvars, tvars, cvars, chat, legacy, sys_stdout>>

\* python.py 40-41: sys.stdout = redirected_output
Redirect(c) ==
    /\ execs[c].pc = "redirect"
    /\ sys_stdout' = redirected_output(c)
    /\ execs' = [execs EXCEPT ![c].pc = "exec"]
    /\ UNCHANGED <<fvars, gvars, tvars, cvars, chat, legacy>>

\* python.py 42-47: exec(code, {}) returns or raises; the except clause turns
\* the exception into the output
Exec(c) ==
    /\ execs[c].pc = "exec"
    /\ execs' = [execs EXCEPT ![c].pc = "restore",
                              ![c].executed = TRUE,
                              ![c].output = IF execs[c].code = "raises"
                                            THEN "Error executing code"
                                            ELSE "captured"]
    /\ UNCHANGED <<fvars, gvars, tvars, cvars, chat, legacy, sys_stdout>>

\* python.py 48-50: finally: sys.stdout = old_stdout, then return
Restore(c) ==
    /\ execs[c].pc = "restore"
    /\ sys_stdout' = execs[c].old_stdout
    /\ execs' = [execs EXCEPT ![c].pc = "returned"]
    /\ UNCHANGED <<fvars, gvars, tvars, cvars, chat, legacy>>

NextExecutor ==
    \E c \in ExecCalls :
        \/ Lint(c)
        \/ SaveStdout(c)
        \/ Redirect(c)
        \/ Exec(c)
        \/ Restore(c)

SpecExecutor ==
    /\ InitExecutor
    /\ [][NextExecutor]_vars

AllExecsReturned == \A c \in ExecCalls : execs[c].pc = "returned"

\* C30: once every call of execute has returned (normally, with a syntax
\* error and nothing executed, or with an exception in the executed code),
\* sys.stdout is again the stream installed before the first call, in every
\* interleaving of the calls.
C30_StdoutRestoredAfterAllCalls ==
    AllExecsReturned =>
        /\ sys_stdout = OriginalStdout
        /\ \A c \in ExecCalls :
             execs[c].code = "syntax_error" <=> ~execs[c].executed

(***************************************************************************)
(* The chat node of app/agent/agent.py with LLMClient.chat_with_tools      *)
(* (app/server/agent/llm_client.py) and the terminal tool                  *)
(* (app/agent/tools/execution/terminal.py).  A message content is a        *)
(* sequence of text pieces, so that the form of a text can be examined.    *)
(***************************************************************************)

MaxToolCalls == 2

ToolNames == {"googleSearcher", "execute_terminal_command"}

\* a name the model may ask for that no registry holds
UnknownTool == "noSuchTool"

\* commands as character sequences: ls, lsx, rm x, and the empty command
Commands == { <<"l", "s">>, <<"l", "s", "x">>, <<"r", "m", " ", "x">>, <<>> }

\* terminal.py 8-18, by their characters; "git status" is left out, no
\* command above starts with g
COMMAND_ALLOW_LIST == { <<"l", "s">>, <<"p", "w", "d">>, <<"e", "c", "h", "o">> }

COMMAND_DENY_LIST == { <<"r", "m">>, <<"s", "u", "d", "o">> }

\* str.startswith
StartsWith(s, prefix) ==
    /\ Len(prefix) <= Len(s)
    /\ SubSeq(s, 1, Len(prefix)) = prefix

\* terminal.py 20-35
is_command_allowed(command) ==
    IF \E d \in COMMAND_DENY_LIST : StartsWith(command, d) THEN FALSE
    ELSE \E a \in COMMAND_ALLOW_LIST : StartsWith(command, a)

\* command.split()[0] if command else '' for the commands above
FirstWord(command) ==
    IF command = <<>> THEN <<>>
    ELSE LET i == CHOOSE k \in 1..(Len(command) + 1) :
                      /\ k = Len(command) + 1 \/ command[k] = " "
                      /\ \A j \in 1..(k - 1) : command[j] # " "
         IN SubSeq(command, 1, i - 1)

\* what subprocess.run can do with an allowed command
RunOutcomes == {"ran", "not_found", "timeout", "error"}

\* terminal.py 37-77: (stdout, stderr, return code); the error information
\* is the three fields joined by "|"
execute_terminal_command(command, os) ==
    IF ~is_command_allowed(command)
    THEN [stdout |-> <<>>,
          stderr |-> <<"COMMAND_NOT_ALLOWED", "|", FirstWord(command), "|", command>>,
          rc |-> 0 - 1]
    ELSE CASE os = "ran" ->
                [stdout |-> <<"output">>, stderr |-> <<>>, rc |-> 0]
           [] os = "not_found" ->
                [stdout |-> <<>>,
                 stderr |-> <<"COMMAND_NOT_FOUND", "|", FirstWord(command), "|", command>>,
                 rc |-> 0 - 2]
           [] os = "timeout" ->
                [stdout |-> <<>>,
                 stderr |-> <<"COMMAND_TIMEOUT", "|", command, "|", "30">>,
                 rc |-> 0 - 3]
           [] OTHER ->
                [stdout |-> <<>>,
                 stderr |-> <<"COMMAND_ERROR", "|", command, "|", "str(e)">>,
                 rc |-> 0 - 4]

\* a text of the form KIND|context|detail
IsStructuredError(content) ==
    /\ Len(content) = 5
    /\ content[2] = "|"
    /\ content[4] = "|"
    /\ content[1] \in {"COMMAND_NOT_ALLOWED", "COMMAND_NOT_FOUND",
                       "COMMAND_TIMEOUT", "COMMAND_ERROR"}

\* llm_client.py 110: f"Error executing tool {tool_name}: {e}"
ToolErrorText(tool_name) == <<"Error executing tool ", tool_name, ": ", "str(e)">>

\* llm_client.py 112-115: f"Tool {tool_name} execution result: {result}"
ToolResultMessage(tool_name, result) ==
    [role |-> "assistant",
     content |-> <<"Tool ", tool_name, " execution result: ", result>>]

\* what the model answers: a text and the tool calls it asks for
ToolCallSeqs ==
    UNION { [1..n -> ToolNames \cup {UnknownTool}] : n \in 0..MaxToolCalls }

ModelText == <<"model text">>

NoResult == [role |-> "none", content |-> <<>>]

\* agent.py 232
LegacyInterruptBefore == {"search_node", "code_node", "human_approval_node", "end_node"}

LegacyIntents == {"search", "code", "chit_chat", "other"}

\* agent.py 166-188: the router asks the model only for a non-blank message
\* that is not from the assistant
AsksIntent(ms) ==
    /\ ms # <<>>
    /\ ms[Len(ms)].role # "ai"
    /\ ms[Len(ms)].content # <<>>

\* agent.py 166-203
choose_next_node(ms, intent) ==
    IF ms = <<>> THEN "chatbot"
    ELSE IF ms[Len(ms)].role = "ai" THEN "end_node"
    ELSE IF ms[Len(ms)].content = <<>> THEN "chatbot"
    ELSE IF intent = "search" THEN "search_node"
    ELSE IF intent = "code" THEN "code_node"
    ELSE "chatbot"

InitLegacy ==
    /\ callback = "none"
    /\ inv = [pc |-> "idle"]
    /\ provider = [state |-> "none", launched |-> 0, aexit |-> 0]
    /\ obs = [stages |-> <<>>]
    /\ gconf = [mapping |-> "none", fallback |-> "clarify"]
    /\ graph = [pc |-> "idle"]
    /\ messages = <<>>
    /\ profile = {}
    /\ route = [called |-> FALSE]
    /\ listing = [pc |-> "idle"]
    /\ config = [github_token |-> FALSE]
    /\ facade = [github_token |-> FALSE]
    /\ calls = <<>>
    /\ made = <<>>
    /\ chat = [pc |-> "idle"]
    /\ sys_stdout = "original"
    /\ execs = <<>>
    /\ \E reg \in SUBSET ToolNames,
          ms \in { <<>>, <<[role |-> "human", content |-> <<"user text">>]>> } :
         legacy = [pc |-> "chatbot", registered |-> reg, msgs |-> ms,
                   response |-> [role |-> "none", content |-> <<>>, tool_calls |-> <<>>],
                   i |-> 0, result |-> NoResult, failure |-> "none",
                   propagated |-> FALSE, next |-> "none", path |-> <<>>]

\* agent.py 76-105 and llm_client.py 76-96: the model answers with a text and
\* possibly tool calls
ChatModel ==
    /\ legacy.pc = "chatbot"
    /\ \E tcs \in ToolCallSeqs :
         legacy' = [legacy EXCEPT !.pc = "tool_calls", !.i = 1, !.failure = "none",
                                  !.response = [role |-> "assistant",
                                                content |-> ModelText,
                                                tool_calls |-> tcs]]
    /\ UNCHANGED <<fvars, gvars, tvars, cvars, chat, sys_stdout, execs>>

\* llm_client.py 100-106: a tool call whose name matches no registered tool
\* is passed over
SkipUnmatched ==
    /\ legacy.pc = "tool_calls"
    /\ legacy.i <= Len(legacy.response.tool_calls)
    /\ legacy.response.tool_calls[legacy.i] \notin legacy.registered
    /\ legacy' = [legacy EXCEPT !.i = @ + 1, !.failure = "unregistered"]
    /\ UNCHANGED <<fvars, gvars, tvars, cvars, chat, sys_stdout, execs>>

\* the results a registered tool can give: the terminal tool its triple for
\* the command of the call, any other tool a value
ToolValues(tool_name) ==
    IF tool_name = "execute_terminal_command"
    THEN { execute_terminal_command(c, os) : c \in Commands, os \in RunOutcomes }
    ELSE { <<"value">> }

\* llm_client.py 106-115: the first matched tool is run; an exception of the
\* run becomes the result text, and the method returns at once
RunMatchedTool ==
    /\ legacy.pc = "tool_calls"
    /\ legacy.i <= Len(legacy.response.tool_calls)
    /\ LET tool_name == legacy.response.tool_calls[legacy.i]
       IN /\ tool_name \in legacy.registered
          /\ \/ \E v \in ToolValues(tool_name) :
                  legacy' = [legacy EXCEPT !.pc = "append",
                                !.result = ToolResultMessage(tool_name, v)]
             \/ legacy' = [legacy EXCEPT !.pc = "append", !.failure = "raised",
                              !.result = ToolResultMessage(tool_name,
                                                           ToolErrorText(tool_name))]
    /\ UNCHANGED <<fvars, gvars, tvars, cvars, chat, sys_stdout, execs>>

\* llm_client.py 117-121: no tool call matched, the model's message is returned
ReturnModelMessage ==
    /\ legacy.pc = "tool_calls"
    /\ legacy.i > Len(legacy.response.tool_calls)
    /\ legacy' = [legacy EXCEPT !.pc = "append",
                     !.result = [role |-> legacy.response.role,
                                 content |-> legacy.response.content]]
    /\ UNCHANGED <<fvars, gvars, tvars, cvars, chat, sys_stdout, execs>>

\* agent.py 107-113: the chat node adds AIMessage(content=result["content"])
ChatbotAppend ==
    /\ legacy.pc = "append"
    /\ legacy' = [legacy EXCEPT !.pc = "route",
                     !.msgs = Append(@, [role |-> "ai", content |-> legacy.result.content]),
                     !.path = Append(@, "chatbot")]
    /\ UNCHANGED <<fvars, gvars, tvars, cvars, chat, sys_stdout, execs>>

\* agent.py 206 with 166-203 and 229-233: the conditional edge of the chat
\* node; the run pauses before a node of interrupt_before
ChooseNextNode ==
    /\ legacy.pc = "route"
    /\ \E intent \in IF AsksIntent(legacy.msgs) THEN LegacyIntents ELSE {"none"} :
         LET nxt == choose_next_node(legacy.msgs, intent)
         IN legacy' = [legacy EXCEPT !.next = nxt,
                          !.pc = IF nxt \in LegacyInterruptBefore
                                 THEN "interrupted" ELSE nxt]
    /\ UNCHANGED <<fvars, gvars, tvars, cvars, chat, sys_stdout, execs>>

\* agent.py 142-152 and 219-221: the resumed run executes the end node, which
\* has no outgoing edge
ResumeEndNode ==
    /\ legacy.pc = "interrupted"
    /\ legacy.next = "end_node"
    /\ legacy' = [legacy EXCEPT !.pc = "done",
                     !.msgs = Append(@, [role |-> "ai",
                                 content |-> <<"(Conversation ended. No new user input.)">>]),
                     !.path = Append(@, "end_node")]
    /\ UNCHANGED <<fvars, gvars, tvars, cvars, chat, sys_stdout, execs>>

NextLegacy ==
    \/ ChatModel
    \/ SkipUnmatched
    \/ RunMatchedTool
    \/ ReturnModelMessage
    \/ ChatbotAppend
    \/ ChooseNextNode
    \/ ResumeEndNode

SpecLegacy ==
    /\ InitLegacy
    /\ [][NextLegacy]_vars

\* the chat node's answer came from a response with a tool call that named an
\* unregistered tool or whose tool raised, and the router has decided
ToolCallFailed ==
    /\ legacy.pc = "interrupted"
    /\ legacy.failure \in {"unregistered", "raised"}

\* C25: when a requested tool is not registered or raises while running, no
\* exception leaves the tool-invocation step, a structured error message
\* KIND|context|detail is added to the conversation, and the chat node runs
\* next.
C25_ToolFailureAddsStructuredError ==
    ToolCallFailed =>
        /\ ~legacy.propagated
        /\ IsStructuredError(legacy.msgs[Len(legacy.msgs)].content)
        /\ legacy.next = "chatbot"

====
